---- MODULE Spec2Model ----
(***************************************************************************)
(* Strategy configuration engine of beefyTool: the migration registry and  *)
(* engine (src/core/config/migration.ts), the validator                    *)
(* (src/core/config/validation.ts) and the loader (src/core/config/io.ts). *)
(*                                                                         *)
(* JavaScript values are tagged records; a string is a tuple of one-       *)
(* character strings, so that regular expressions, toLowerCase and key     *)
(* formatting are computed character by character.  A property that is     *)
(* absent reads as Undefined, as in JavaScript.                            *)
(***************************************************************************)
EXTENDS Integers, Sequences, FiniteSets, TLC

VARIABLES migrationRegistry, files, call

vars == <<migrationRegistry, files, call>>

(***************************************************************************)
(* Bounds of the model.                                                    *)
(***************************************************************************)
\* Versions range over 0..MaxVersion.
MaxVersion == 3

\* At most this many keys are registered.
MaxRegistered == 2

\* A configuration handed to the validator departs from a valid one in at
\* most this many places.
MaxEdits == 2

Versions == 0..MaxVersion

(***************************************************************************)
(* JavaScript values.                                                      *)
(***************************************************************************)
Undefined == [type |-> "undefined"]

Null == [type |-> "null"]

Num(n) == [type |-> "number", val |-> n]

\* The number NaN.
NaN == [type |-> "NaN"]

Str(s) == [type |-> "string", val |-> s]

Arr(a) == [type |-> "array", val |-> a]

Obj(o) == [type |-> "object", val |-> o]

IsString(v) == v.type = "string"

\* undefined and null: reading a property of either raises a TypeError.
IsNullish(v) == v.type \in {"undefined", "null"}

\* ToBoolean, for the operand of `!`.
Truthy(v) ==
  CASE v.type \in {"undefined", "null", "NaN"} -> FALSE
    [] v.type = "number" -> v.val # 0
    [] v.type = "string" -> Len(v.val) > 0
    [] OTHER -> TRUE

Digits == <<"0", "1", "2", "3", "4", "5", "6", "7", "8", "9">>

UpperLetters ==
  <<"A", "B", "C", "D", "E", "F", "G", "H", "I", "J", "K", "L", "M",
    "N", "O", "P", "Q", "R", "S", "T", "U", "V", "W", "X", "Y", "Z">>

LowerLetters ==
  <<"a", "b", "c", "d", "e", "f", "g", "h", "i", "j", "k", "l", "m",
    "n", "o", "p", "q", "r", "s", "t", "u", "v", "w", "x", "y", "z">>

Range(s) == {s[i] : i \in DOMAIN s}

\* String.prototype.toLowerCase, one character.
UpperToLower == [c \in Range(UpperLetters) |->
                   LowerLetters[CHOOSE i \in DOMAIN UpperLetters : UpperLetters[i] = c]]

LowerChar(c) == IF c \in DOMAIN UpperToLower THEN UpperToLower[c] ELSE c

\* String.prototype.toLowerCase on the characters of a string.
ToLowerCase(s) == [i \in DOMAIN s |-> LowerChar(s[i])]

\* Number to string, as a template literal formats an integer.
RECURSIVE NumToString(_)
NumToString(n) ==
  IF n < 0 THEN <<"-">> \o NumToString(0 - n)
  ELSE IF n < 10 THEN <<Digits[n + 1]>>
  ELSE NumToString(n \div 10) \o <<Digits[(n % 10) + 1]>>

\* ToString, as RegExp.prototype.test and the `in` operator coerce an operand.
RECURSIVE JsToString(_)
JsToString(v) ==
  CASE v.type = "string" -> v.val
    [] v.type = "undefined" -> <<"u", "n", "d", "e", "f", "i", "n", "e", "d">>
    [] v.type = "null" -> <<"n", "u", "l", "l">>
    [] v.type = "number" -> NumToString(v.val)
    [] v.type = "NaN" -> <<"N", "a", "N">>
    [] v.type = "array" ->
         IF Len(v.val) = 0 THEN <<>>
         ELSE LET first == IF IsNullish(v.val[1]) THEN <<>> ELSE JsToString(v.val[1])
              IN IF Len(v.val) = 1 THEN first
                 ELSE first \o <<",">> \o JsToString(Arr(Tail(v.val)))
    [] OTHER -> <<"[", "o", "b", "j", "e", "c", "t", " ", "O", "b", "j", "e", "c", "t", "]">>

\* The digits of a string as a number.
RECURSIVE DigitsValue(_)
DigitsValue(s) ==
  IF Len(s) = 0 THEN 0
  ELSE 10 * DigitsValue(SubSeq(s, 1, Len(s) - 1))
       + ((CHOOSE i \in DOMAIN Digits : Digits[i] = s[Len(s)]) - 1)

\* ToNumber, for the primitive values a version may hold: null is 0, undefined
\* is NaN, a string is its decimal value or NaN.
ToNumber(v) ==
  CASE v.type = "number" -> v
    [] v.type = "null" -> Num(0)
    [] v.type = "string" /\ \A i \in DOMAIN v.val : v.val[i] \in Range(Digits) ->
         Num(DigitsValue(v.val))
    [] OTHER -> NaN

\* a < b where b is a number: false when either operand converts to NaN.
JsLess(a, b) ==
  /\ ToNumber(a).type = "number"
  /\ ToNumber(b).type = "number"
  /\ ToNumber(a).val < ToNumber(b).val

\* v + 1: concatenation for a string, addition otherwise.
JsPlusOne(v) ==
  IF v.type = "string" THEN Str(v.val \o <<"1">>)
  ELSE IF ToNumber(v).type = "number" THEN Num(ToNumber(v).val + 1)
  ELSE NaN

\* Property read v[k]; the caller checks IsNullish(v) first (a TypeError).
Get(v, k) ==
  IF v.type = "object" /\ k \in DOMAIN v.val THEN v.val[k] ELSE Undefined

(***************************************************************************)
(* Errors (src/core/utils/errors.ts).                                      *)
(***************************************************************************)
NoError == [name |-> "none"]

ConfigValidationError(message, field) ==
  [name |-> "ConfigValidationError", code |-> "CONFIG_VALIDATION_ERROR",
   message |-> message, field |-> field]

GenerationError(message, step) ==
  [name |-> "GenerationError", code |-> "GENERATION_ERROR",
   message |-> message, step |-> step]

FileSystemError(message, path) ==
  [name |-> "FileSystemError", code |-> "FILESYSTEM_ERROR",
   message |-> message, path |-> path]

\* An error of the JavaScript runtime, or one a transform raises.
RuntimeError(name) == [name |-> name, code |-> "none"]

Ok == [threw |-> FALSE, err |-> NoError]

Throw(e) == [threw |-> TRUE, err |-> e]

(***************************************************************************)
(* Metadata tables the validator consults.                                 *)
(***************************************************************************)
\* Names every object inherits from Object.prototype: `k in table` is true
\* for them as well as for the table's own keys.
ObjectPrototypeKeys ==
  {<<"c", "o", "n", "s", "t", "r", "u", "c", "t", "o", "r">>,
   <<"t", "o", "S", "t", "r", "i", "n", "g">>,
   <<"v", "a", "l", "u", "e", "O", "f">>,
   <<"h", "a", "s", "O", "w", "n", "P", "r", "o", "p", "e", "r", "t", "y">>,
   <<"_", "_", "p", "r", "o", "t", "o", "_", "_">>}

NETWORK_METADATA_KEYS ==
  {<<"m", "a", "i", "n", "n", "e", "t">>,
   <<"o", "p", "t", "i", "m", "i", "s", "m">>,
   <<"a", "r", "b", "i", "t", "r", "u", "m">>,
   <<"b", "a", "s", "e">>}

solidly_lp == <<"s", "o", "l", "i", "d", "l", "y", "_", "l", "p">>

STRATEGY_FAMILIES_KEYS == {solidly_lp}

velodrome == <<"v", "e", "l", "o", "d", "r", "o", "m", "e">>

aerodrome == <<"a", "e", "r", "o", "d", "r", "o", "m", "e">>

SUPPORTED_DEXES == <<Str(velodrome), Str(aerodrome)>>

\* 40 hexadecimal digits after "0x".
ADDRESS_HEX_DIGITS == 40

\* "0x" followed by ADDRESS_HEX_DIGITS copies of one character.
Address(c) == <<"0", "x">> \o [i \in 1..ADDRESS_HEX_DIGITS |-> c]

\* 0xEeeeeEeeeEeEeeEeEeEeeEEEeeeeEeeeeeeeEEeE
NATIVE_TOKEN_ADDRESS ==
  <<"0", "x", "E", "e", "e", "e", "e", "E", "e", "e", "e", "E", "e", "E", "e", "e", "E", "e", "E", "e", "E", "e", "e", "E", "E", "E", "e", "e", "e", "e", "E", "e", "e", "e", "e", "e", "e", "e", "E", "E", "e", "E">>

isSupportedNetwork(network) ==
  JsToString(network) \in NETWORK_METADATA_KEYS \cup ObjectPrototypeKeys

isSupportedStrategyFamily(family) ==
  JsToString(family) \in STRATEGY_FAMILIES_KEYS \cup ObjectPrototypeKeys

\* STRATEGY_FAMILIES[family] is falsy: getStrategyFamily raises a plain Error.
getStrategyFamilyThrows(family) ==
  JsToString(family) \notin STRATEGY_FAMILIES_KEYS \cup ObjectPrototypeKeys

\* The === operator: NaN equals nothing, itself included.
StrictEquals(a, b) == a.type = b.type /\ a.type # "NaN" /\ a = b

\* Array.prototype.includes: strict equality with an element.
ArrayIncludes(a, v) == \E i \in DOMAIN a : StrictEquals(a[i], v)

(***************************************************************************)
(* isValidAddress, isFilesystemSafeName.                                   *)
(***************************************************************************)
HexChars ==
  Range(Digits) \cup {"a", "b", "c", "d", "e", "f"} \cup {"A", "B", "C", "D", "E", "F"}

\* Faulty variant of MatchesAddressPattern: the pattern is not anchored at the
\* end of the string.
MatchesAddressPatternUnanchored(s) ==
  /\ Len(s) >= ADDRESS_HEX_DIGITS + 2
  /\ s[1] = "0"
  /\ s[2] = "x"
  /\ \A i \in 3..(ADDRESS_HEX_DIGITS + 2) : s[i] \in HexChars

\* /^0x[a-fA-F0-9]{40}$/ on the characters of a string.
MatchesAddressPattern(s) ==
  /\ Len(s) = ADDRESS_HEX_DIGITS + 2
  /\ s[1] = "0"
  /\ s[2] = "x"
  /\ \A i \in 3..Len(s) : s[i] \in HexChars

isValidAddress(address) == MatchesAddressPattern(JsToString(address))

NameChars ==
  Range(LowerLetters) \cup Range(UpperLetters) \cup Range(Digits) \cup {"_", "-", " "}

\* /^[a-zA-Z0-9_\- ]+$/ on the characters of a string.
MatchesNamePattern(s) == Len(s) > 0 /\ \A i \in DOMAIN s : s[i] \in NameChars

\* String.prototype.includes.
StringIncludes(s, sub) ==
  \E i \in 1..(Len(s) - Len(sub) + 1) : SubSeq(s, i, i + Len(sub) - 1) = sub

WhiteSpace == {" ", "\t", "\n", "\r"}

\* String.prototype.trim.
RECURSIVE Trim(_)
Trim(s) ==
  IF Len(s) = 0 THEN s
  ELSE IF s[1] \in WhiteSpace THEN Trim(Tail(s))
  ELSE IF s[Len(s)] \in WhiteSpace THEN Trim(SubSeq(s, 1, Len(s) - 1))
  ELSE s

\* Faulty variant of isFilesystemSafeNameChars: a name of spaces passes.
isFilesystemSafeNameCharsUntrimmed(s) ==
  IF Len(s) = 0 THEN FALSE
  ELSE IF StringIncludes(s, <<".", ".">>) \/ StringIncludes(s, <<"/">>)
          \/ StringIncludes(s, <<"\\">>) THEN FALSE
  ELSE IF ~MatchesNamePattern(s) THEN FALSE
  ELSE TRUE

\* isFilesystemSafeName on the characters of a string.
isFilesystemSafeNameChars(s) ==
  IF Len(s) = 0 THEN FALSE
  ELSE IF StringIncludes(s, <<".", ".">>) \/ StringIncludes(s, <<"/">>)
          \/ StringIncludes(s, <<"\\">>) THEN FALSE
  ELSE IF ~MatchesNamePattern(s) THEN FALSE
  ELSE IF Len(Trim(s)) = 0 THEN FALSE
  ELSE TRUE

\* isFilesystemSafeName(name) for any value: "true", "false", or "TypeError"
\* when name has no includes or no trim method.
isFilesystemSafeName(name) ==
  IF ~Truthy(name) THEN "false"
  ELSE IF name.type = "string"
  THEN IF isFilesystemSafeNameChars(name.val) THEN "true" ELSE "false"
  ELSE IF name.type = "array"
  THEN IF Len(name.val) = 0 THEN "false"
       ELSE IF ArrayIncludes(name.val, Str(<<".", ".">>))
               \/ ArrayIncludes(name.val, Str(<<"/">>))
               \/ ArrayIncludes(name.val, Str(<<"\\">>)) THEN "false"
       ELSE IF ~MatchesNamePattern(JsToString(name)) THEN "false"
       ELSE "TypeError"
  ELSE "TypeError"

(***************************************************************************)
(* validateRoutes, validateConfig.  Each returns Ok or Throw(error): the   *)
(* first failing check decides.                                            *)
(***************************************************************************)
\* Faulty variant of LowerOf: the letters keep their case.
LowerOfKeepingCase(v) == v.val

\* x.toLowerCase() raises a TypeError unless x is a string.
LowerOf(v) == ToLowerCase(v.val)

\* Faulty variant of validateRoute: the elements of the path are checked
\* before its endpoints.
validateRouteElementsFirst(routes, rewardToken, routeName, native) ==
  LET route == Get(routes, routeName)
      from == Get(route, "from")
      to == Get(route, "to")
      path == Get(route, "path")
      field == "routes." \o routeName
  IN
  IF IsNullish(routes) \/ IsNullish(route) THEN Throw(RuntimeError("TypeError"))
  ELSE IF ~isValidAddress(from)
  THEN Throw(ConfigValidationError("Invalid from address format", field \o ".from"))
  ELSE IF ~IsString(from) \/ ~IsString(rewardToken) THEN Throw(RuntimeError("TypeError"))
  ELSE IF LowerOf(from) # LowerOf(rewardToken)
  THEN Throw(ConfigValidationError("from must match rewardToken", field \o ".from"))
  ELSE IF ~isValidAddress(to)
  THEN Throw(ConfigValidationError("Invalid to address format", field \o ".to"))
  ELSE IF native /\ ~IsString(to) THEN Throw(RuntimeError("TypeError"))
  ELSE IF native /\ LowerOf(to) # ToLowerCase(NATIVE_TOKEN_ADDRESS)
  THEN Throw(ConfigValidationError("to must be the native token address", field \o ".to"))
  ELSE IF path.type # "array" \/ Len(path.val) = 0
  THEN Throw(ConfigValidationError("path must be a non-empty array", field \o ".path"))
  ELSE IF \E i \in DOMAIN path.val : ~isValidAddress(path.val[i])
  THEN Throw(ConfigValidationError("Invalid token address in path", field \o ".path"))
  ELSE IF ~IsString(path.val[1])
  THEN Throw(RuntimeError("TypeError"))
  ELSE IF LowerOf(path.val[1]) # LowerOf(from)
  THEN Throw(ConfigValidationError("path must start with from address", field \o ".path"))
  ELSE IF ~IsString(path.val[Len(path.val)]) \/ ~IsString(to)
  THEN Throw(RuntimeError("TypeError"))
  ELSE IF LowerOf(path.val[Len(path.val)]) # LowerOf(to)
  THEN Throw(ConfigValidationError("path must end with to address", field \o ".path"))
  ELSE Ok

\* Faulty variant of validateRoute: the path may end anywhere.
validateRouteAnyEnd(routes, rewardToken, routeName, native) ==
  LET route == Get(routes, routeName)
      from == Get(route, "from")
      to == Get(route, "to")
      path == Get(route, "path")
      field == "routes." \o routeName
  IN
  IF IsNullish(routes) \/ IsNullish(route) THEN Throw(RuntimeError("TypeError"))
  ELSE IF ~isValidAddress(from)
  THEN Throw(ConfigValidationError("Invalid from address format", field \o ".from"))
  ELSE IF ~IsString(from) \/ ~IsString(rewardToken) THEN Throw(RuntimeError("TypeError"))
  ELSE IF LowerOf(from) # LowerOf(rewardToken)
  THEN Throw(ConfigValidationError("from must match rewardToken", field \o ".from"))
  ELSE IF ~isValidAddress(to)
  THEN Throw(ConfigValidationError("Invalid to address format", field \o ".to"))
  ELSE IF native /\ ~IsString(to) THEN Throw(RuntimeError("TypeError"))
  ELSE IF native /\ LowerOf(to) # ToLowerCase(NATIVE_TOKEN_ADDRESS)
  THEN Throw(ConfigValidationError("to must be the native token address", field \o ".to"))
  ELSE IF path.type # "array" \/ Len(path.val) = 0
  THEN Throw(ConfigValidationError("path must be a non-empty array", field \o ".path"))
  ELSE IF ~IsString(path.val[1])
  THEN Throw(RuntimeError("TypeError"))
  ELSE IF LowerOf(path.val[1]) # LowerOf(from)
  THEN Throw(ConfigValidationError("path must start with from address", field \o ".path"))
  ELSE IF \E i \in DOMAIN path.val : ~isValidAddress(path.val[i])
  THEN Throw(ConfigValidationError("Invalid token address in path", field \o ".path"))
  ELSE Ok

\* Faulty variant of validateRoute: the path may start anywhere.
validateRouteAnyStart(routes, rewardToken, routeName, native) ==
  LET route == Get(routes, routeName)
      from == Get(route, "from")
      to == Get(route, "to")
      path == Get(route, "path")
      field == "routes." \o routeName
  IN
  IF IsNullish(routes) \/ IsNullish(route) THEN Throw(RuntimeError("TypeError"))
  ELSE IF ~isValidAddress(from)
  THEN Throw(ConfigValidationError("Invalid from address format", field \o ".from"))
  ELSE IF ~IsString(from) \/ ~IsString(rewardToken) THEN Throw(RuntimeError("TypeError"))
  ELSE IF LowerOf(from) # LowerOf(rewardToken)
  THEN Throw(ConfigValidationError("from must match rewardToken", field \o ".from"))
  ELSE IF ~isValidAddress(to)
  THEN Throw(ConfigValidationError("Invalid to address format", field \o ".to"))
  ELSE IF native /\ ~IsString(to) THEN Throw(RuntimeError("TypeError"))
  ELSE IF native /\ LowerOf(to) # ToLowerCase(NATIVE_TOKEN_ADDRESS)
  THEN Throw(ConfigValidationError("to must be the native token address", field \o ".to"))
  ELSE IF path.type # "array" \/ Len(path.val) = 0
  THEN Throw(ConfigValidationError("path must be a non-empty array", field \o ".path"))
  ELSE IF ~IsString(path.val[Len(path.val)]) \/ ~IsString(to)
  THEN Throw(RuntimeError("TypeError"))
  ELSE IF LowerOf(path.val[Len(path.val)]) # LowerOf(to)
  THEN Throw(ConfigValidationError("path must end with to address", field \o ".path"))
  ELSE IF \E i \in DOMAIN path.val : ~isValidAddress(path.val[i])
  THEN Throw(ConfigValidationError("Invalid token address in path", field \o ".path"))
  ELSE Ok

\* The checks of one route, in the order of the source; `native` adds the
\* comparison of `to` with NATIVE_TOKEN_ADDRESS.
validateRoute(routes, rewardToken, routeName, native) ==
  LET route == Get(routes, routeName)
      from == Get(route, "from")
      to == Get(route, "to")
      path == Get(route, "path")
      field == "routes." \o routeName
  IN
  IF IsNullish(routes) \/ IsNullish(route) THEN Throw(RuntimeError("TypeError"))
  ELSE IF ~isValidAddress(from)
  THEN Throw(ConfigValidationError("Invalid from address format", field \o ".from"))
  ELSE IF ~IsString(from) \/ ~IsString(rewardToken) THEN Throw(RuntimeError("TypeError"))
  ELSE IF LowerOf(from) # LowerOf(rewardToken)
  THEN Throw(ConfigValidationError("from must match rewardToken", field \o ".from"))
  ELSE IF ~isValidAddress(to)
  THEN Throw(ConfigValidationError("Invalid to address format", field \o ".to"))
  ELSE IF native /\ ~IsString(to) THEN Throw(RuntimeError("TypeError"))
  ELSE IF native /\ LowerOf(to) # ToLowerCase(NATIVE_TOKEN_ADDRESS)
  THEN Throw(ConfigValidationError("to must be the native token address", field \o ".to"))
  ELSE IF path.type # "array" \/ Len(path.val) = 0
  THEN Throw(ConfigValidationError("path must be a non-empty array", field \o ".path"))
  ELSE IF ~IsString(path.val[1])
  THEN Throw(RuntimeError("TypeError"))
  ELSE IF LowerOf(path.val[1]) # LowerOf(from)
  THEN Throw(ConfigValidationError("path must start with from address", field \o ".path"))
  ELSE IF ~IsString(path.val[Len(path.val)]) \/ ~IsString(to)
  THEN Throw(RuntimeError("TypeError"))
  ELSE IF LowerOf(path.val[Len(path.val)]) # LowerOf(to)
  THEN Throw(ConfigValidationError("path must end with to address", field \o ".path"))
  ELSE IF \E i \in DOMAIN path.val : ~isValidAddress(path.val[i])
  THEN Throw(ConfigValidationError("Invalid token address in path", field \o ".path"))
  ELSE Ok

\* Faulty variant of validateRoutes: rewardToLp0 is checked before
\* rewardToNative.
validateRoutesLp0First(routes, rewardToken) ==
  LET native == validateRoute(routes, rewardToken, "rewardToNative", TRUE)
      lp0 == validateRoute(routes, rewardToken, "rewardToLp0", FALSE)
      lp1 == validateRoute(routes, rewardToken, "rewardToLp1", FALSE)
  IN IF lp0.threw THEN lp0
     ELSE IF native.threw THEN native
     ELSE lp1

\* Faulty variant of validateRoutes: rewardToNative.to is not compared with
\* the native token address.
validateRoutesAnyTarget(routes, rewardToken) ==
  LET native == validateRoute(routes, rewardToken, "rewardToNative", FALSE)
      lp0 == validateRoute(routes, rewardToken, "rewardToLp0", FALSE)
      lp1 == validateRoute(routes, rewardToken, "rewardToLp1", FALSE)
  IN IF native.threw THEN native
     ELSE IF lp0.threw THEN lp0
     ELSE lp1

validateRoutes(routes, rewardToken) ==
  LET native == validateRoute(routes, rewardToken, "rewardToNative", TRUE)
      lp0 == validateRoute(routes, rewardToken, "rewardToLp0", FALSE)
      lp1 == validateRoute(routes, rewardToken, "rewardToLp1", FALSE)
  IN IF native.threw THEN native
     ELSE IF lp0.threw THEN lp0
     ELSE lp1

\* The beefyCore checks: keeper, vaultFactory, feeConfig, feeRecipient.
validateBeefyCore(beefyCore) ==
  IF IsNullish(beefyCore) THEN Throw(RuntimeError("TypeError"))
  ELSE IF ~isValidAddress(Get(beefyCore, "keeper"))
  THEN Throw(ConfigValidationError("Invalid keeper address format", "beefyCore.keeper"))
  ELSE IF ~isValidAddress(Get(beefyCore, "vaultFactory"))
  THEN Throw(ConfigValidationError("Invalid vault factory address format",
                                   "beefyCore.vaultFactory"))
  ELSE IF ~isValidAddress(Get(beefyCore, "feeConfig"))
  THEN Throw(ConfigValidationError("Invalid fee config address format",
                                   "beefyCore.feeConfig"))
  ELSE IF ~isValidAddress(Get(beefyCore, "feeRecipient"))
  THEN Throw(ConfigValidationError("Invalid fee recipient address format",
                                   "beefyCore.feeRecipient"))
  ELSE Ok

\* Faulty variant of validateFamilyFields: nothing requires one of the two
\* addresses.
validateFamilyFieldsNoneRequired(config) ==
  IF StrictEquals(config.strategyFamily, Str(solidly_lp))
  THEN IF Truthy(config.gaugeAddress) /\ ~isValidAddress(config.gaugeAddress)
       THEN Throw(ConfigValidationError("Invalid gauge address format", "gaugeAddress"))
       ELSE IF Truthy(config.stakingAddress) /\ ~isValidAddress(config.stakingAddress)
       THEN Throw(ConfigValidationError("Invalid staking address format",
                                        "stakingAddress"))
       ELSE Ok
  ELSE Ok

\* The gauge/staking checks of the solidly_lp family.
validateFamilyFields(config) ==
  IF StrictEquals(config.strategyFamily, Str(solidly_lp))
  THEN IF ~Truthy(config.gaugeAddress) /\ ~Truthy(config.stakingAddress)
       THEN Throw(ConfigValidationError(
                    "Either gaugeAddress or stakingAddress must be provided",
                    "gaugeAddress"))
       ELSE IF Truthy(config.gaugeAddress) /\ ~isValidAddress(config.gaugeAddress)
       THEN Throw(ConfigValidationError("Invalid gauge address format", "gaugeAddress"))
       ELSE IF Truthy(config.stakingAddress) /\ ~isValidAddress(config.stakingAddress)
       THEN Throw(ConfigValidationError("Invalid staking address format",
                                        "stakingAddress"))
       ELSE Ok
  ELSE Ok

validateConfig(config) ==
  IF ~isSupportedNetwork(config.network)
  THEN Throw(ConfigValidationError("Unsupported network", "network"))
  ELSE IF ~isSupportedStrategyFamily(config.strategyFamily)
  THEN Throw(ConfigValidationError("Unsupported strategy family", "strategyFamily"))
  ELSE IF ~ArrayIncludes(SUPPORTED_DEXES, config.dex)
  THEN Throw(ConfigValidationError("Unsupported DEX", "dex"))
  ELSE IF isFilesystemSafeName(config.name) = "TypeError"
  THEN Throw(RuntimeError("TypeError"))
  ELSE IF isFilesystemSafeName(config.name) = "false"
  THEN Throw(ConfigValidationError("Strategy name contains invalid characters", "name"))
  ELSE IF ~isValidAddress(config.lpTokenAddress)
  THEN Throw(ConfigValidationError("Invalid LP token address format", "lpTokenAddress"))
  ELSE IF ~isValidAddress(config.rewardToken)
  THEN Throw(ConfigValidationError("Invalid reward token address format", "rewardToken"))
  ELSE IF getStrategyFamilyThrows(config.strategyFamily)
  THEN Throw(RuntimeError("Error"))
  ELSE IF validateFamilyFields(config).threw THEN validateFamilyFields(config)
  ELSE IF validateBeefyCore(config.beefyCore).threw THEN validateBeefyCore(config.beefyCore)
  ELSE validateRoutes(config.routes, config.rewardToken)

(***************************************************************************)
(* Documents.  A document is the record of a StrategyConfig's properties   *)
(* (src/core/config/model.ts); the sample follows the valid configuration   *)
(* of the validator's tests.                                               *)
(***************************************************************************)
Route(from, to) == Obj([from |-> Str(from), to |-> Str(to), path |-> Arr(<<Str(from), Str(to)>>)])

RewardTokenAddress == Address("9")

ValidConfig ==
  [configVersion |-> Num(1),
   name |-> Str(<<"T", "e", "s", "t", " ", "S", "t", "r", "a", "t", "e", "g", "y">>),
   network |-> Str(<<"o", "p", "t", "i", "m", "i", "s", "m">>),
   strategyFamily |-> Str(solidly_lp),
   dex |-> Str(velodrome),
   lpTokenAddress |-> Str(Address("1")),
   gaugeAddress |-> Str(Address("a")),
   stakingAddress |-> Undefined,
   rewardToken |-> Str(RewardTokenAddress),
   routes |-> Obj([rewardToNative |-> Route(RewardTokenAddress, NATIVE_TOKEN_ADDRESS),
                   rewardToLp0 |-> Route(RewardTokenAddress, Address("1")),
                   rewardToLp1 |-> Route(RewardTokenAddress, Address("2"))]),
   vaultMode |-> Str(<<"s", "t", "r", "a", "t", "e", "g", "y", "-", "o", "n", "l", "y">>),
   beefyCore |-> Obj([keeper |-> Str(Address("3")),
                      vaultFactory |-> Str(Address("4")),
                      feeConfig |-> Str(Address("5")),
                      feeRecipient |-> Str(Address("6"))]),
   complexity |-> Str(<<"b", "a", "s", "i", "c">>)]

\* A document of an older schema, which had no dex property.
OldSchemaConfig == [ValidConfig EXCEPT !.dex = Undefined]

Contents == {ValidConfig, OldSchemaConfig}

\* The values of configVersion a caller's document may hold.
DocumentVersions == {Undefined, Null} \cup {Num(v) : v \in Versions}

Documents == {[c EXCEPT !.configVersion = v] : c \in Contents, v \in DocumentVersions}

(***************************************************************************)
(* Transforms.  A registered migration function is any function of a       *)
(* document; the model registers these, each closed over the version it    *)
(* targets.                                                                *)
(*   upgrade   returns a copy with dex filled in and configVersion set     *)
(*   rename    returns a copy with name set, configVersion left as it is   *)
(*   identity  returns its argument                                        *)
(*   throws    raises                                                      *)
(***************************************************************************)
TransformKinds == {"upgrade", "rename", "identity", "throws"}

Transform(kind, target) == [kind |-> kind, target |-> target]

TransformThrows(fn) == fn.kind = "throws"

\* Whether the function returns a new object rather than its argument.
TransformCopies(fn) == fn.kind \in {"upgrade", "rename"}

\* The document the function returns (or leaves in its argument).
TransformResult(fn, config) ==
  CASE fn.kind = "upgrade" ->
         [config EXCEPT !.dex = IF config.dex = Undefined THEN Str(velodrome) ELSE @,
                        !.configVersion = Num(fn.target)]
    [] fn.kind = "rename" ->
         [config EXCEPT !.name = Str(<<"v">> \o NumToString(fn.target))]
    [] OTHER -> config

\* Faulty variant of CallTransform: migrationFn(config), the caller's document, in
\* place of migrationFn(currentConfig).
CallTransformOnInput(fn, heap, ref) ==
  IF TransformThrows(fn)
  THEN [threw |-> TRUE, heap |-> heap, ret |-> 0]
  ELSE IF TransformCopies(fn)
  THEN [threw |-> FALSE, heap |-> Append(heap, TransformResult(fn, heap[1])),
        ret |-> Len(heap) + 1]
  ELSE [threw |-> FALSE, heap |-> [heap EXCEPT ![1] = TransformResult(fn, heap[1])],
        ret |-> 1]

\* migrationFn(currentConfig) on the heap: a sequence of objects, a reference
\* being an index into it.
CallTransform(fn, heap, ref) ==
  IF TransformThrows(fn)
  THEN [threw |-> TRUE, heap |-> heap, ret |-> 0]
  ELSE IF TransformCopies(fn)
  THEN [threw |-> FALSE, heap |-> Append(heap, TransformResult(fn, heap[ref])),
        ret |-> Len(heap) + 1]
  ELSE [threw |-> FALSE, heap |-> [heap EXCEPT ![ref] = TransformResult(fn, heap[ref])],
        ret |-> ref]

(***************************************************************************)
(* Migration engine (src/core/config/migration.ts).                        *)
(***************************************************************************)
\* `${fromVersion}->${toVersion}`
MigrationKey(fromVersion, toVersion) ==
  JsToString(fromVersion) \o <<"-", ">">> \o JsToString(toVersion)

\* Faulty variant of RegistrySet: a key that is registered keeps its function.
RegistrySetKeepingFirst(registry, key, migrationFn) ==
  [k \in DOMAIN registry \cup {key} |-> IF k \in DOMAIN registry THEN registry[k]
                                        ELSE migrationFn]

\* migrationRegistry.set(key, migrationFn)
RegistrySet(registry, key, migrationFn) ==
  [k \in DOMAIN registry \cup {key} |-> IF k = key THEN migrationFn ELSE registry[k]]

\* Faulty variant of SameVersion: the early return left out.
SameVersionNever(fromVersion, toVersion) == FALSE

\* fromVersion === toVersion
SameVersion(fromVersion, toVersion) == StrictEquals(fromVersion, toVersion)

\* Faulty variant of IsDowngrade: the comparison the wrong way round.
IsDowngradeSwapped(fromVersion, toVersion) == JsLess(fromVersion, toVersion)

\* fromVersion > toVersion
IsDowngrade(fromVersion, toVersion) == JsLess(toVersion, fromVersion)

\* currentVersion < toVersion
LoopContinues(currentVersion, toVersion) == JsLess(currentVersion, toVersion)

\* currentVersion + 1
NextVersion(currentVersion) == JsPlusOne(currentVersion)

DowngradeError(fromVersion, toVersion) ==
  GenerationError([text |-> "Cannot downgrade config", from |-> fromVersion,
                   to |-> toVersion], "migration")

MissingStepError(currentVersion, nextVersion) ==
  GenerationError([text |-> "Migration is not implemented", from |-> currentVersion,
                   to |-> nextVersion], "migration")

\* Faulty variant of FailedStepError: currentVersion advanced before the transform ran,
\* so that the error names the step after the one that failed.
FailedStepErrorNext(currentVersion, nextVersion) ==
  GenerationError([text |-> "Migration failed", from |-> nextVersion,
                   to |-> JsPlusOne(nextVersion)], "migration")

FailedStepError(currentVersion, nextVersion) ==
  GenerationError([text |-> "Migration failed", from |-> currentVersion,
                   to |-> nextVersion], "migration")

\* Faulty variant of StampVersion: the assignment left out.
StampVersionOmitted(heap, ref, version) == heap

\* currentConfig.configVersion = toVersion
StampVersion(heap, ref, version) ==
  [heap EXCEPT ![ref].configVersion = version]

\* The outcome of a call: whether it threw, the error, the reference returned
\* (0 when none), the heap it leaves, the keys of the transforms it invoked in
\* order, and the number of validateConfig runs.
Outcome(threw, err, ret, heap, invoked, validated) ==
  [threw |-> threw, err |-> err, ret |-> ret, heap |-> heap, invoked |-> invoked,
   validated |-> validated]

\* Faulty variant of MigrateLoop: a step that is not registered is skipped.
RECURSIVE MigrateLoopSkipping(_, _, _, _, _, _)
MigrateLoopSkipping(registry, heap, currentConfig, currentVersion, toVersion, invoked) ==
  IF LoopContinues(currentVersion, toVersion)
  THEN LET nextVersion == NextVersion(currentVersion)
           migrationKey == MigrationKey(currentVersion, nextVersion)
       IN IF migrationKey \notin DOMAIN registry
          THEN MigrateLoopSkipping(registry, heap, currentConfig, nextVersion, toVersion,
                                   invoked)
          ELSE LET r == CallTransform(registry[migrationKey], heap, currentConfig)
               IN IF r.threw
                  THEN Outcome(TRUE, FailedStepError(currentVersion, nextVersion), 0,
                               r.heap, Append(invoked, migrationKey), 0)
                  ELSE MigrateLoopSkipping(registry, r.heap, r.ret, nextVersion,
                                           toVersion, Append(invoked, migrationKey))
  ELSE Outcome(FALSE, NoError, currentConfig,
               StampVersion(heap, currentConfig, toVersion), invoked, 0)

\* Faulty variant of MigrateLoop: a transform that raised is tried once more.
RECURSIVE MigrateLoopRetrying(_, _, _, _, _, _)
MigrateLoopRetrying(registry, heap, currentConfig, currentVersion, toVersion, invoked) ==
  IF LoopContinues(currentVersion, toVersion)
  THEN LET nextVersion == NextVersion(currentVersion)
           migrationKey == MigrationKey(currentVersion, nextVersion)
       IN IF migrationKey \notin DOMAIN registry
          THEN Outcome(TRUE, MissingStepError(currentVersion, nextVersion), 0, heap,
                       invoked, 0)
          ELSE LET r == CallTransform(registry[migrationKey], heap, currentConfig)
               IN IF r.threw
                  THEN Outcome(TRUE, FailedStepError(currentVersion, nextVersion), 0,
                               r.heap, invoked \o <<migrationKey, migrationKey>>, 0)
                  ELSE MigrateLoopRetrying(registry, r.heap, r.ret, nextVersion, toVersion,
                                           Append(invoked, migrationKey))
  ELSE Outcome(FALSE, NoError, currentConfig,
               StampVersion(heap, currentConfig, toVersion), invoked, 0)

\* The while loop and the statements after it.
RECURSIVE MigrateLoop(_, _, _, _, _, _)
MigrateLoop(registry, heap, currentConfig, currentVersion, toVersion, invoked) ==
  IF LoopContinues(currentVersion, toVersion)
  THEN LET nextVersion == NextVersion(currentVersion)
           migrationKey == MigrationKey(currentVersion, nextVersion)
       IN IF migrationKey \notin DOMAIN registry
          THEN Outcome(TRUE, MissingStepError(currentVersion, nextVersion), 0, heap,
                       invoked, 0)
          ELSE LET r == CallTransform(registry[migrationKey], heap, currentConfig)
               IN IF r.threw
                  THEN Outcome(TRUE, FailedStepError(currentVersion, nextVersion), 0,
                               r.heap, Append(invoked, migrationKey), 0)
                  ELSE MigrateLoop(registry, r.heap, r.ret, nextVersion, toVersion,
                                   Append(invoked, migrationKey))
  ELSE Outcome(FALSE, NoError, currentConfig,
               StampVersion(heap, currentConfig, toVersion), invoked, 0)

\* migrateConfig(config, fromVersion, toVersion); the versions are JavaScript
\* values and config a reference into the heap.
migrateConfig(registry, heap, config, fromVersion, toVersion) ==
  IF SameVersion(fromVersion, toVersion)
  THEN Outcome(FALSE, NoError, config, heap, <<>>, 0)
  ELSE IF IsDowngrade(fromVersion, toVersion)
  THEN Outcome(TRUE, DowngradeError(fromVersion, toVersion), 0, heap, <<>>, 0)
  ELSE MigrateLoop(registry, heap, config, fromVersion, toVersion, <<>>)

(***************************************************************************)
(* Loader (src/core/config/io.ts).                                         *)
(***************************************************************************)
CURRENT_CONFIG_VERSION == 1

MissingVersionError ==
  ConfigValidationError("Missing required field: configVersion", "configVersion")

NewerVersionError ==
  ConfigValidationError("Config version is newer than supported version",
                        "configVersion")

\* Faulty variant of VersionMissing: !config.configVersion, which also rejects 0.
VersionMissingFalsy(configVersion) == ~Truthy(configVersion)

\* Faulty variant of VersionMissing: the comparison with null left out.
VersionMissingUndefinedOnly(configVersion) == configVersion.type = "undefined"

\* config.configVersion === undefined || config.configVersion === null
VersionMissing(configVersion) == configVersion.type \in {"undefined", "null"}

\* version < CURRENT_CONFIG_VERSION
IsOlderVersion(version) == JsLess(version, Num(CURRENT_CONFIG_VERSION))

\* Faulty variant of IsNewerVersion: one version ahead is let through.
IsNewerVersionOffByOne(version) == JsLess(Num(CURRENT_CONFIG_VERSION + 1), version)

\* version > CURRENT_CONFIG_VERSION
IsNewerVersion(version) == JsLess(Num(CURRENT_CONFIG_VERSION), version)

\* migratedConfig.configVersion = CURRENT_CONFIG_VERSION
StampCurrentVersion(heap, ref) ==
  [heap EXCEPT ![ref].configVersion = Num(CURRENT_CONFIG_VERSION)]

\* Faulty variant of StampAndValidate: the config is returned although validateConfig
\* threw.
StampAndValidateUnchecked(heap, migratedConfig, invoked) ==
  Outcome(FALSE, NoError, migratedConfig, StampCurrentVersion(heap, migratedConfig),
          invoked, 1)

\* The statements after the version branches: stamp, validate, return.
StampAndValidate(heap, migratedConfig, invoked) ==
  LET stamped == StampCurrentVersion(heap, migratedConfig)
      v == validateConfig(stamped[migratedConfig])
  IN IF v.threw
     THEN Outcome(TRUE, v.err, 0, stamped, invoked, 1)
     ELSE Outcome(FALSE, NoError, migratedConfig, stamped, invoked, 1)

validateAndMigrateConfig(registry, heap, config) ==
  IF VersionMissing(heap[config].configVersion)
  THEN Outcome(TRUE, MissingVersionError, 0, heap, <<>>, 0)
  ELSE LET version == heap[config].configVersion
       IN IF IsOlderVersion(version)
          THEN LET m == migrateConfig(registry, heap, config, version,
                                      Num(CURRENT_CONFIG_VERSION))
               IN IF m.threw THEN m
                  ELSE StampAndValidate(m.heap, m.ret, m.invoked)
          ELSE IF IsNewerVersion(version)
          THEN Outcome(TRUE, NewerVersionError, 0, heap, <<>>, 0)
          ELSE StampAndValidate(heap, config, <<>>)

(***************************************************************************)
(* Raw storage and readConfigFile.  A path is the sequence of its          *)
(* segments.  The text of a file is kept as what JSON.parse makes of it: a *)
(* syntax error, the value null, or an object.                             *)
(***************************************************************************)
Paths == {<<"strategy-config.json">>, <<"out", "strategy-config.json">>}

\* The directories above the paths, the working directory aside.
Directories == {<<"out">>}

WorkingDirectory == <<".">>

\* path.dirname
dirname(path) == IF Len(path) = 1 THEN WorkingDirectory ELSE SubSeq(path, 1, Len(path) - 1)

NoFile == [kind |-> "absent"]

Directory == [kind |-> "directory"]

\* A path readFile cannot read for another reason than absence (a directory).
Unreadable == [kind |-> "unreadable"]

MalformedText == [kind |-> "text", json |-> "malformed"]

NullText == [kind |-> "text", json |-> "null"]

DocumentText(doc) == [kind |-> "text", json |-> "object", value |-> doc]

FileContents ==
  {NoFile, Unreadable, MalformedText, NullText} \cup {DocumentText(d) : d \in Documents}

\* What may sit where a directory is expected: nothing, a directory, a file.
DirectoryContents == {NoFile, Directory, MalformedText}

\* The directory of a path exists.
DirectoryExists(storage, path) ==
  IF dirname(path) = WorkingDirectory THEN TRUE
  ELSE storage[dirname(path)].kind = "directory"

\* What readFile finds at a path: below a file that stands where the
\* directory should be, the read fails with ENOTDIR.
Lookup(storage, path) ==
  IF DirectoryExists(storage, path) THEN storage[path]
  ELSE IF storage[dirname(path)].kind = "absent" THEN NoFile
  ELSE Unreadable

\* An error of Node's fs module, with its errno code.
NodeError(code) == [name |-> "Error", code |-> code]

\* The catch clause of readConfigFile: the error the caller receives.
ReadCatch(error, configPath) ==
  IF error.name = "ConfigValidationError" THEN error
  ELSE IF error.name = "SyntaxError"
  THEN ConfigValidationError("Invalid JSON in config file", "json")
  ELSE IF error.code = "ENOENT"
  THEN FileSystemError("Config file not found", configPath)
  ELSE FileSystemError("Failed to read config file", configPath)

\* rawConfig.configVersion === undefined
RawVersionUndefined(configVersion) == configVersion.type = "undefined"

\* The try block of readConfigFile.
ReadTry(registry, file) ==
  IF file.kind = "absent"
  THEN Outcome(TRUE, NodeError("ENOENT"), 0, <<>>, <<>>, 0)
  ELSE IF file.kind = "unreadable"
  THEN Outcome(TRUE, NodeError("EISDIR"), 0, <<>>, <<>>, 0)
  ELSE IF file.json = "malformed"
  THEN Outcome(TRUE, RuntimeError("SyntaxError"), 0, <<>>, <<>>, 0)
  ELSE IF file.json = "null"
  THEN Outcome(TRUE, RuntimeError("TypeError"), 0, <<>>, <<>>, 0)
  ELSE LET heap == <<file.value>>
       IN IF RawVersionUndefined(heap[1].configVersion)
          THEN Outcome(TRUE, MissingVersionError, 0, heap, <<>>, 0)
          ELSE validateAndMigrateConfig(registry, heap, 1)

readConfigFile(registry, storage, configPath) ==
  LET t == ReadTry(registry, Lookup(storage, configPath))
  IN IF t.threw THEN [t EXCEPT !.err = ReadCatch(t.err, configPath)] ELSE t

(***************************************************************************)
(* writeConfigFile.  A call yields its outcome and the storage it leaves.  *)
(***************************************************************************)
\* JSON.parse(JSON.stringify(v)) of a value inside a document: NaN becomes
\* null, an undefined array element becomes null, an undefined property is
\* left out (and reads as undefined).
RECURSIVE JsonValue(_)
JsonValue(v) ==
  CASE v.type = "NaN" -> Null
    [] v.type = "array" ->
         Arr([i \in DOMAIN v.val |->
                IF v.val[i].type = "undefined" THEN Null ELSE JsonValue(v.val[i])])
    [] v.type = "object" -> Obj([k \in DOMAIN v.val |-> JsonValue(v.val[k])])
    [] OTHER -> v

\* The file text JSON.stringify(configWithVersion, null, 2) produces.
JsonStringify(doc) == DocumentText([k \in DOMAIN doc |-> JsonValue(doc[k])])

\* Faulty variant of ConfigWithVersion: the copy keeps the caller's version.
ConfigWithVersionUnstamped(config) == config

\* { ...config, configVersion: CURRENT_CONFIG_VERSION }: a new object.
ConfigWithVersion(config) ==
  [config EXCEPT !.configVersion = Num(CURRENT_CONFIG_VERSION)]

\* mkdir(outputDir, { recursive: true }): creates a missing directory, leaves
\* an existing one, fails with EEXIST where a file stands.
Mkdir(storage, dir) ==
  IF dir = WorkingDirectory THEN [threw |-> FALSE, err |-> NoError, files |-> storage]
  ELSE IF storage[dir].kind = "directory"
  THEN [threw |-> FALSE, err |-> NoError, files |-> storage]
  ELSE IF storage[dir].kind = "absent"
  THEN [threw |-> FALSE, err |-> NoError, files |-> [storage EXCEPT ![dir] = Directory]]
  ELSE [threw |-> TRUE, err |-> NodeError("EEXIST"), files |-> storage]

\* The inner catch: an EEXIST of mkdir is ignored, any other error rethrown.
MkdirIgnoringExists(storage, dir) ==
  LET m == Mkdir(storage, dir)
  IN IF m.threw /\ m.err.code = "EEXIST"
     THEN [threw |-> FALSE, err |-> NoError, files |-> m.files]
     ELSE m

\* writeFile(outputPath, jsonContent, "utf-8")
WriteFile(storage, path, content) ==
  IF ~DirectoryExists(storage, path)
  THEN [threw |-> TRUE,
        err |-> NodeError(IF storage[dirname(path)].kind = "absent"
                          THEN "ENOENT" ELSE "ENOTDIR"),
        files |-> storage]
  ELSE IF storage[path].kind = "unreadable"
  THEN [threw |-> TRUE, err |-> NodeError("EISDIR"), files |-> storage]
  ELSE [threw |-> FALSE, err |-> NoError, files |-> [storage EXCEPT ![path] = content]]

\* The outer catch of writeConfigFile: the error the caller receives.
WriteCatch(error, outputPath) ==
  IF error.name = "ConfigValidationError" THEN error
  ELSE IF error.name = "FileSystemError" THEN error
  ELSE FileSystemError("Failed to write config file", outputPath)

\* Faulty variant of WriteTry: the directory is created before the config is
\* validated.
WriteTryMkdirFirst(storage, config, outputPath) ==
  LET heap == <<config, ConfigWithVersion(config)>>
      d == MkdirIgnoringExists(storage, dirname(outputPath))
      v == validateConfig(heap[2])
  IN IF d.threw
     THEN [out |-> Outcome(TRUE, d.err, 0, heap, <<>>, 0), files |-> d.files]
     ELSE IF v.threw
     THEN [out |-> Outcome(TRUE, v.err, 0, heap, <<>>, 1), files |-> d.files]
     ELSE LET w == WriteFile(d.files, outputPath, JsonStringify(heap[2]))
          IN [out |-> Outcome(w.threw, w.err, 0, heap, <<>>, 1), files |-> w.files]

\* The try block of writeConfigFile.  The heap holds the caller's config and
\* the stamped copy.
WriteTry(storage, config, outputPath) ==
  LET heap == <<config, ConfigWithVersion(config)>>
      v == validateConfig(heap[2])
  IN IF v.threw
     THEN [out |-> Outcome(TRUE, v.err, 0, heap, <<>>, 1), files |-> storage]
     ELSE LET d == MkdirIgnoringExists(storage, dirname(outputPath))
          IN IF d.threw
             THEN [out |-> Outcome(TRUE, d.err, 0, heap, <<>>, 1), files |-> d.files]
             ELSE LET w == WriteFile(d.files, outputPath, JsonStringify(heap[2]))
                  IN [out |-> Outcome(w.threw, w.err, 0, heap, <<>>, 1),
                      files |-> w.files]

writeConfigFile(storage, config, outputPath) ==
  LET t == WriteTry(storage, config, outputPath)
  IN IF t.out.threw
     THEN [t EXCEPT !.out.err = WriteCatch(t.out.err, outputPath)]
     ELSE t

(***************************************************************************)
(* State machine.  A caller is either between calls (call.op = "none") or  *)
(* holds the outcome of the call it made; Return hands control back.       *)
(***************************************************************************)
NoCall == [op |-> "none"]

Init ==
  /\ migrationRegistry = <<>>
  /\ files = [p \in Paths \cup Directories |-> NoFile]
  /\ call = NoCall

\* `before` keeps the registry the call found.
RegisterMigration(fromVersion, toVersion, migrationFn) ==
  /\ call = NoCall
  /\ \/ MigrationKey(Num(fromVersion), Num(toVersion)) \in DOMAIN migrationRegistry
     \/ Cardinality(DOMAIN migrationRegistry) < MaxRegistered
  /\ migrationRegistry' =
       RegistrySet(migrationRegistry, MigrationKey(Num(fromVersion), Num(toVersion)),
                   migrationFn)
  /\ call' = [op |-> "registerMigration", fromVersion |-> fromVersion,
              toVersion |-> toVersion, migrationFn |-> migrationFn,
              before |-> migrationRegistry]
  /\ UNCHANGED files

MigrateConfig(doc, fromVersion, toVersion) ==
  /\ call = NoCall
  /\ call' = [op |-> "migrateConfig", input |-> doc, fromVersion |-> fromVersion,
              toVersion |-> toVersion,
              out |-> migrateConfig(migrationRegistry, <<doc>>, 1, Num(fromVersion),
                                    Num(toVersion))]
  /\ UNCHANGED <<migrationRegistry, files>>

ValidateAndMigrateConfig(doc) ==
  /\ call = NoCall
  /\ call' = [op |-> "validateAndMigrateConfig", input |-> doc,
              out |-> validateAndMigrateConfig(migrationRegistry, <<doc>>, 1)]
  /\ UNCHANGED <<migrationRegistry, files>>

ReadConfigFile(configPath) ==
  /\ call = NoCall
  /\ call' = [op |-> "readConfigFile", path |-> configPath,
              file |-> Lookup(files, configPath),
              out |-> readConfigFile(migrationRegistry, files, configPath)]
  /\ UNCHANGED <<migrationRegistry, files>>

\* The user, or another program, puts a file or a directory at a path or
\* removes it: a file where its directory exists, a directory entry while
\* nothing is below it.
StoreFile(path, content) ==
  /\ call = NoCall
  /\ IF path \in Directories
     THEN \A p \in Paths : dirname(p) = path => files[p] = NoFile
     ELSE DirectoryExists(files, path)
  /\ files' = [files EXCEPT ![path] = content]
  /\ UNCHANGED <<migrationRegistry, call>>

\* `before` keeps the storage the call found.
WriteConfigFile(config, outputPath) ==
  /\ call = NoCall
  /\ LET w == writeConfigFile(files, config, outputPath)
     IN /\ call' = [op |-> "writeConfigFile", input |-> config, path |-> outputPath,
                    before |-> files, out |-> w.out]
        /\ files' = w.files
  /\ UNCHANGED migrationRegistry

Return ==
  /\ call # NoCall
  /\ call' = NoCall
  /\ UNCHANGED <<migrationRegistry, files>>

\* The pairs a migration is registered under: single steps (v, v + 1) and
\* pairs that skip a version (v, v + 2).
RegisteredPairs == {p \in Versions \X Versions : p[2] - p[1] \in {1, 2}}

\* The documents handed to migrateConfig directly; the configVersion property
\* is absent, the lowest or the highest version, or the current one.
MigrateDocuments ==
  {[OldSchemaConfig EXCEPT !.configVersion = v] :
     v \in {Undefined, Num(0), Num(MaxVersion)}} \cup {ValidConfig}

Register ==
  \E p \in RegisteredPairs, k \in TransformKinds :
    RegisterMigration(p[1], p[2], Transform(k, p[2]))

Migrate == \E d \in MigrateDocuments, f \in Versions, t \in Versions : MigrateConfig(d, f, t)

Load == \E d \in Documents : ValidateAndMigrateConfig(d)

Next == Register \/ Migrate \/ Load \/ Return

Spec == Init /\ [][Next]_vars

\* The registry of an engine whose current version is CURRENT_CONFIG_VERSION:
\* steps up to that version.
RegisterCurrent ==
  \E p \in RegisteredPairs, k \in TransformKinds :
    /\ p[2] <= CURRENT_CONFIG_VERSION
    /\ RegisterMigration(p[1], p[2], Transform(k, p[2]))

Store ==
  \/ \E p \in Paths, c \in FileContents : StoreFile(p, c)
  \/ \E p \in Directories, c \in DirectoryContents : StoreFile(p, c)

Read == \E p \in Paths : ReadConfigFile(p)

NextLoader == RegisterCurrent \/ Store \/ Read \/ Load \/ Return

LoaderSpec == Init /\ [][NextLoader]_vars

\* The configurations handed to writeConfigFile, values of type
\* StrategyConfig: valid with a gauge, valid with a staking contract only,
\* with a network that is not supported, with an ill-formed LP token address;
\* each carrying an old, the current or a newer configVersion.
WriteContents ==
  {ValidConfig,
   [ValidConfig EXCEPT !.gaugeAddress = Undefined, !.stakingAddress = Str(Address("b"))],
   [ValidConfig EXCEPT !.network = Str(<<"m", "o", "o", "n">>)],
   [ValidConfig EXCEPT !.lpTokenAddress = Str(<<"0", "x", "1", "2">>)]}

WriteConfigs ==
  {[c EXCEPT !.configVersion = Num(v)] :
     c \in WriteContents, v \in {0, CURRENT_CONFIG_VERSION, MaxVersion}}

Write == \E c \in WriteConfigs, p \in Paths : WriteConfigFile(c, p)

\* What the writer finds in its way: nothing, a directory, a file of an
\* older version.
StoreForWriter ==
  \/ \E p \in Paths,
          c \in {NoFile, Unreadable,
                 DocumentText([OldSchemaConfig EXCEPT !.configVersion = Num(0)])} :
       StoreFile(p, c)
  \/ \E p \in Directories, c \in DirectoryContents : StoreFile(p, c)

NextWriter == RegisterCurrent \/ StoreForWriter \/ Write \/ Read \/ Return

WriterSpec == Init /\ [][NextWriter]_vars

(***************************************************************************)
(* The validator on its own.  Its inputs are a valid configuration changed *)
(* in up to MaxEdits places, and configurations whose addresses are        *)
(* written in mixed letter case.                                           *)
(***************************************************************************)
ValidateConfig(config) ==
  /\ call = NoCall
  /\ call' = [op |-> "validateConfig", input |-> config, out |-> validateConfig(config)]
  /\ UNCHANGED <<migrationRegistry, files>>

\* Ill-formed address: too short.
ShortAddress == Str(<<"0", "x", "1", "2">>)

RouteNames == {"rewardToNative", "rewardToLp0", "rewardToLp1"}

BeefyCoreFields == {"keeper", "vaultFactory", "feeConfig", "feeRecipient"}

\* A change of one property: the property's path and its new value.
Edit(at, value) == [at |-> at, value |-> value]

TopLevelEdits ==
  {Edit(<<"network">>, Str(<<"m", "o", "o", "n">>)),
   Edit(<<"strategyFamily">>, Str(<<"o", "t", "h", "e", "r">>)),
   Edit(<<"dex">>, Str(<<"u", "n", "i">>)),
   Edit(<<"name">>, Str(<<".", ".", "/", "x">>)),
   Edit(<<"lpTokenAddress">>, ShortAddress),
   Edit(<<"rewardToken">>, ShortAddress),
   Edit(<<"rewardToken">>, Str(Address("8"))),
   Edit(<<"gaugeAddress">>, Undefined),
   Edit(<<"gaugeAddress">>, ShortAddress),
   Edit(<<"gaugeAddress">>, Str(<<>>)),
   Edit(<<"stakingAddress">>, Str(Address("b"))),
   Edit(<<"stakingAddress">>, ShortAddress)}

BeefyCoreEdits == {Edit(<<"beefyCore", f>>, ShortAddress) : f \in BeefyCoreFields}

\* The changes of one route of the valid configuration: an ill-formed or
\* another well-formed `from` and `to`, and paths that start or end
\* elsewhere or pass through an ill-formed address, and the empty path.
RouteEdits(r) ==
  LET route == ValidConfig.routes.val[r].val
  IN {Edit(<<"routes", r, "from">>, ShortAddress),
      Edit(<<"routes", r, "from">>, Str(Address("8"))),
      Edit(<<"routes", r, "to">>, ShortAddress),
      Edit(<<"routes", r, "to">>, Str(Address("7"))),
      Edit(<<"routes", r, "path">>, Arr(<<Str(Address("8")), route.to>>)),
      Edit(<<"routes", r, "path">>, Arr(<<route.from, Str(Address("7"))>>)),
      Edit(<<"routes", r, "path">>, Arr(<<route.from, ShortAddress, route.to>>)),
      Edit(<<"routes", r, "path">>, Arr(<<>>)),
      Edit(<<"routes", r, "path">>, Arr(<<ShortAddress, route.to>>))}

Edits == TopLevelEdits \cup BeefyCoreEdits \cup UNION {RouteEdits(r) : r \in RouteNames}

\* The configuration with one property changed.
ApplyEdit(config, e) ==
  IF Len(e.at) = 1 THEN [config EXCEPT ![e.at[1]] = e.value]
  ELSE LET outer == config[e.at[1]].val
       IN IF Len(e.at) = 2
          THEN [config EXCEPT ![e.at[1]] = Obj([outer EXCEPT ![e.at[2]] = e.value])]
          ELSE LET inner == outer[e.at[2]].val
               IN [config EXCEPT ![e.at[1]] =
                     Obj([outer EXCEPT ![e.at[2]] =
                            Obj([inner EXCEPT ![e.at[3]] = e.value])])]

\* The valid configuration changed in up to n places.
RECURSIVE EditedConfigs(_)
EditedConfigs(n) ==
  IF n = 0 THEN {ValidConfig}
  ELSE EditedConfigs(n - 1)
         \cup {ApplyEdit(c, e) : c \in EditedConfigs(n - 1), e \in Edits}

\* A route from the reward token written in upper case, through a path
\* written in lower case.
MixedCaseRoute(to) ==
  Obj([from |-> Str(Address("C")), to |-> Str(to),
       path |-> Arr(<<Str(Address("c")), Str(ToLowerCase(to))>>)])

\* A configuration whose route addresses differ from the reward token and
\* from each other in letter case only.
MixedCaseConfig ==
  [ValidConfig EXCEPT
     !.rewardToken = Str(Address("c")),
     !.routes = Obj([rewardToNative |-> MixedCaseRoute(ToLowerCase(NATIVE_TOKEN_ADDRESS)),
                     rewardToLp0 |-> MixedCaseRoute(Address("D")),
                     rewardToLp1 |-> MixedCaseRoute(Address("E"))])]

\* The mixed-case configuration, and it with one path starting elsewhere.
MixedCaseConfigs ==
  {MixedCaseConfig}
    \cup {ApplyEdit(MixedCaseConfig,
                    Edit(<<"routes", r, "path">>,
                         Arr(<<Str(Address("d")), MixedCaseConfig.routes.val[r].val.to>>))) :
            r \in RouteNames}

ValidationConfigs == EditedConfigs(MaxEdits) \cup MixedCaseConfigs

Validate == \E c \in ValidationConfigs : ValidateConfig(c)

NextValidation == Validate \/ Return

ValidationSpec == Init /\ [][NextValidation]_vars

(***************************************************************************)
(* The two format checkers on their own, and the validator on names.  The  *)
(* addresses are well-formed addresses with one character replaced, cut    *)
(* short, extended or without prefix, the strings of the tests, and a      *)
(* missing value; the names are those of the tests and names with each of  *)
(* the characters the checker looks for.                                   *)
(***************************************************************************)
IsValidAddress(address) ==
  /\ call = NoCall
  /\ call' = [op |-> "isValidAddress", input |-> address, out |-> isValidAddress(address)]
  /\ UNCHANGED <<migrationRegistry, files>>

IsFilesystemSafeName(name) ==
  /\ call = NoCall
  /\ call' = [op |-> "isFilesystemSafeName", input |-> name,
              out |-> isFilesystemSafeName(name)]
  /\ UNCHANGED <<migrationRegistry, files>>

WellFormedAddresses == {Address("1"), Address("a"), Address("F")}

\* The places of a replaced character: the prefix, the first, a middle and
\* the last hexadecimal digit.
ReplacedAt == {1, 2, 3, ADDRESS_HEX_DIGITS \div 2, ADDRESS_HEX_DIGITS + 2}

Replacements == {"0", "9", "a", "f", "A", "F", "g", "G", "x", "X", "z", " ", "-"}

ReplacedAddresses ==
  {[a EXCEPT ![i] = c] : a \in WellFormedAddresses, i \in ReplacedAt, c \in Replacements}

ResizedAddresses ==
  UNION {{SubSeq(a, 1, Len(a) - 1), SubSeq(a, 3, Len(a)), SubSeq(a, 1, 2),
          Append(a, "0"), Append(a, "g"), Append(a, "\n"), <<" ">> \o a,
          <<"0", "x">> \o a} : a \in WellFormedAddresses}

TestAddresses ==
  {<<"i", "n", "v", "a", "l", "i", "d", "-", "a", "d", "d", "r", "e", "s", "s">>,
   <<"0", "x", "1", "2", "3", "4">>,
   <<"0", "x">> \o [i \in 1..ADDRESS_HEX_DIGITS |-> "G"],
   <<>>}

AddressInputs ==
  {Str(a) : a \in WellFormedAddresses \cup ReplacedAddresses \cup ResizedAddresses
                    \cup TestAddresses}
    \cup {Undefined, Null}

NameInputs ==
  {Str(<<".", ".", "/", ".", ".", "/", "e", "t", "c", "/", "p", "a", "s", "s", "w", "d">>),
   Str(<<"t", "e", "s", "t", "/", "s", "t", "r", "a", "t", "e", "g", "y">>),
   Str(<<"T", "e", "s", "t", "-", "S", "t", "r", "a", "t", "e", "g", "y", "_", "1", "2", "3">>),
   Str(<<"T", "e", "s", "t", " ", "S", "t", "r", "a", "t", "e", "g", "y">>),
   Str(<<>>),
   Str(<<" ">>),
   Str(<<" ", " ", " ">>),
   Str(<<"a", ".", ".", "b">>),
   Str(<<".", ".">>),
   Str(<<"a", "\\", "b">>),
   Str(<<"a", ".", "b">>),
   Str(<<".">>),
   Str(<<"n", "a", "m", "e", "!">>),
   Str(<<"t", "a", "b", "\t", "n", "a", "m", "e">>),
   Str(<<" ", "l", "e", "a", "d">>),
   Str(<<"t", "r", "a", "i", "l", " ">>),
   Str(<<"a", " ", "b", " ", "c">>),
   Str(<<"_">>),
   Str(<<"-">>),
   Str(<<"M", "y", " ", "V", "a", "u", "l", "t", " ", "2">>),
   Str(<<"x", "\n">>),
   Str(<<"a", "@", "b">>),
   Str(<<"0">>),
   Str(<<"Z">>)}

CheckAddress == \E a \in AddressInputs : IsValidAddress(a)

CheckName == \E n \in NameInputs : IsFilesystemSafeName(n)

ValidateName == \E n \in NameInputs : ValidateConfig([ValidConfig EXCEPT !.name = n])

NextCheckers == CheckAddress \/ CheckName \/ ValidateName \/ Return

CheckersSpec == Init /\ [][NextCheckers]_vars

(***************************************************************************)
(* Incomplete documents: the valid configuration with routes, one route,   *)
(* a route's from, to or path, beefyCore or one of its addresses missing   *)
(* or of another type.  They go to validateConfig directly, and through    *)
(* a file to the loader.                                                   *)
(***************************************************************************)
\* A missing property, and values of types the schema does not expect there.
UnexpectedValues == {Undefined, Null, Num(1), Str(<<"x">>), Arr(<<>>)}

IncompletePlaces ==
  {<<"routes">>, <<"beefyCore">>}
    \cup {<<"routes", r>> : r \in RouteNames}
    \cup {<<"routes", r, p>> : r \in RouteNames, p \in {"from", "to", "path"}}
    \cup {<<"beefyCore", f>> : f \in BeefyCoreFields}

\* Every value is unexpected in every place but the empty array as a path,
\* which is a path, though an empty one.
IncompleteConfigs ==
  {ApplyEdit(ValidConfig, Edit(at, v)) : at \in IncompletePlaces, v \in UnexpectedValues}

ValidateIncomplete == \E c \in IncompleteConfigs : ValidateConfig(c)

StoreIncomplete ==
  \E p \in Paths, c \in IncompleteConfigs : StoreFile(p, DocumentText(c))

NextIncomplete == ValidateIncomplete \/ StoreIncomplete \/ Read \/ Return

IncompleteSpec == Init /\ [][NextIncomplete]_vars

(***************************************************************************)
(* The loader on documents whose configVersion is of any JSON type, or     *)
(* NaN: validateAndMigrateConfig takes a value of type any.                *)
(***************************************************************************)
UntypedVersions ==
  DocumentVersions
    \cup {NaN, Str(<<>>), Str(<<"0">>), Str(<<"1">>), Str(<<"2">>), Str(<<"v", "1">>),
          Str(<<"l", "a", "t", "e", "s", "t">>), Obj([major |-> Num(1)])}

UntypedDocuments ==
  {[c EXCEPT !.configVersion = v] : c \in Contents, v \in UntypedVersions}

LoadUntyped == \E d \in UntypedDocuments : ValidateAndMigrateConfig(d)

NextUntyped == RegisterCurrent \/ LoadUntyped \/ Return

UntypedSpec == Init /\ [][NextUntyped]_vars

(***************************************************************************)
(* Vocabulary of the properties.                                           *)
(***************************************************************************)
IsMigrateCall == call.op = "migrateConfig"

\* The spec's MigrationError: the GenerationError the engine raises with step
\* "migration".
IsMigrationError(e) == e.name = "GenerationError" /\ e.step = "migration"

\* A MigrationError with this text that names the pair (from, to).
NamesStep(e, text, from, to) ==
  /\ IsMigrationError(e)
  /\ e.message.text = text
  /\ e.message.from = Num(from)
  /\ e.message.to = Num(to)

StepKey(k) == MigrationKey(Num(k), Num(k + 1))

StepRegistered(k) == StepKey(k) \in DOMAIN migrationRegistry

StepsRegistered(from, to) == \A k \in from..(to - 1) : StepRegistered(k)

\* No registered transform of the steps from..to-1 raises.
NoStepThrows(from, to) ==
  \A k \in from..(to - 1) :
    StepRegistered(k) => ~TransformThrows(migrationRegistry[StepKey(k)])

\* The keys of the steps from -> from+1 -> ... -> to, in ascending order.
StepKeys(from, to) == [i \in 1..(to - from) |-> StepKey(from + i - 1)]

\* The steps from..to-1 applied to a document one after the other.
RECURSIVE ComposeSteps(_, _, _)
ComposeSteps(doc, from, to) ==
  IF from >= to THEN doc
  ELSE ComposeSteps(TransformResult(migrationRegistry[StepKey(from)], doc), from + 1, to)

\* The lowest step of from..to-1 that is not registered.
LowestMissing(from, to) ==
  CHOOSE k \in from..(to - 1) :
    ~StepRegistered(k) /\ \A j \in from..(k - 1) : StepRegistered(j)

\* The document a call returned.
Returned == call.out.heap[call.out.ret]

(***************************************************************************)
(* C1.  Migration never downgrades: migrateConfig with fromVersion >       *)
(* toVersion fails with a MigrationError, invokes no registered transform  *)
(* and returns no document, whatever the registry holds.                   *)
(***************************************************************************)
C1_NeverDowngrades ==
  (IsMigrateCall /\ call.fromVersion > call.toVersion) =>
    /\ call.out.threw
    /\ NamesStep(call.out.err, "Cannot downgrade config", call.fromVersion,
                 call.toVersion)
    /\ call.out.invoked = <<>>
    /\ call.out.ret = 0

\* migrateConfig(doc, 3, 1) has failed with steps 1->2 and 2->3 registered.
C1_Witness ==
  /\ IsMigrateCall
  /\ call.fromVersion = 3
  /\ call.toVersion = 1
  /\ StepsRegistered(1, 3)
  /\ call.out.threw

(***************************************************************************)
(* C2, as stated.  With every step of fromVersion..toVersion registered    *)
(* (and none raising), migrateConfig returns a document equal to the       *)
(* steps applied to the input in ascending order.                          *)
(***************************************************************************)
C2_ComposesExactly ==
  (/\ IsMigrateCall
   /\ call.fromVersion < call.toVersion
   /\ StepsRegistered(call.fromVersion, call.toVersion)
   /\ NoStepThrows(call.fromVersion, call.toVersion)) =>
    /\ ~call.out.threw
    /\ Returned = ComposeSteps(call.input, call.fromVersion, call.toVersion)

(***************************************************************************)
(* C2, amended.  Under the same conditions the returned document equals    *)
(* the steps applied in ascending order, except that its configVersion is  *)
(* toVersion; the transforms invoked are exactly those steps, in order.    *)
(***************************************************************************)
C2_ComposesUpToStamp ==
  (/\ IsMigrateCall
   /\ call.fromVersion < call.toVersion
   /\ StepsRegistered(call.fromVersion, call.toVersion)
   /\ NoStepThrows(call.fromVersion, call.toVersion)) =>
    /\ ~call.out.threw
    /\ Returned =
         [ComposeSteps(call.input, call.fromVersion, call.toVersion)
            EXCEPT !.configVersion = Num(call.toVersion)]
    /\ call.out.invoked = StepKeys(call.fromVersion, call.toVersion)

\* migrateConfig(doc, 1, 3) has returned through two steps of which the first
\* changes the document and the second works on what the first returned.
C2_Witness ==
  /\ IsMigrateCall
  /\ call.fromVersion = 1
  /\ call.toVersion = 3
  /\ ~call.out.threw
  /\ Len(call.out.invoked) = 2
  /\ migrationRegistry[StepKey(1)].kind = "upgrade"
  /\ migrationRegistry[StepKey(2)].kind = "rename"
  /\ call.input.dex = Undefined
  /\ Returned.dex = Str(velodrome)

(***************************************************************************)
(* C3, as stated.  If a step of fromVersion..toVersion is not registered,  *)
(* migrateConfig fails with the MigrationError that names the lowest       *)
(* missing pair, having invoked exactly the steps below it, and returns no *)
(* document.                                                               *)
(***************************************************************************)
C3_MissingStepAlways ==
  (/\ IsMigrateCall
   /\ call.fromVersion < call.toVersion
   /\ ~StepsRegistered(call.fromVersion, call.toVersion)) =>
    LET k == LowestMissing(call.fromVersion, call.toVersion)
    IN /\ call.out.threw
       /\ NamesStep(call.out.err, "Migration is not implemented", k, k + 1)
       /\ call.out.invoked = StepKeys(call.fromVersion, k)
       /\ call.out.ret = 0

(***************************************************************************)
(* C3, amended.  The same, provided no transform registered for a step     *)
(* below the lowest missing one raises (when one does, the call fails at   *)
(* that step instead).                                                     *)
(***************************************************************************)
C3_MissingStep ==
  (/\ IsMigrateCall
   /\ call.fromVersion < call.toVersion
   /\ ~StepsRegistered(call.fromVersion, call.toVersion)
   /\ NoStepThrows(call.fromVersion,
                   LowestMissing(call.fromVersion, call.toVersion))) =>
    LET k == LowestMissing(call.fromVersion, call.toVersion)
    IN /\ call.out.threw
       /\ NamesStep(call.out.err, "Migration is not implemented", k, k + 1)
       /\ call.out.invoked = StepKeys(call.fromVersion, k)
       /\ call.out.ret = 0

\* A call has failed at a missing step after applying a registered one, with a
\* higher step registered too.
C3_Witness ==
  /\ IsMigrateCall
  /\ call.fromVersion = 0
  /\ call.toVersion = 3
  /\ StepRegistered(0)
  /\ ~StepRegistered(1)
  /\ StepRegistered(2)
  /\ call.out.threw
  /\ Len(call.out.invoked) = 1

(***************************************************************************)
(* C4.  When the transform of step k -> k+1 raises inside migrateConfig,   *)
(* the call fails with a MigrationError naming k -> k+1, that transform is *)
(* the last one invoked, and no document is returned.                      *)
(***************************************************************************)
C4_FailingTransform ==
  IsMigrateCall =>
    \A i \in DOMAIN call.out.invoked :
      TransformThrows(migrationRegistry[call.out.invoked[i]]) =>
        /\ i = Len(call.out.invoked)
        /\ call.out.invoked[i] = StepKey(call.fromVersion + i - 1)
        /\ call.out.threw
        /\ NamesStep(call.out.err, "Migration failed", call.fromVersion + i - 1,
                     call.fromVersion + i)
        /\ call.out.ret = 0

\* The second step of a call has raised, after the first was applied, with
\* more versions to go.
C4_Witness ==
  /\ IsMigrateCall
  /\ call.fromVersion = 0
  /\ call.toVersion = 3
  /\ Len(call.out.invoked) = 2
  /\ TransformThrows(migrationRegistry[call.out.invoked[2]])
  /\ call.out.threw

(***************************************************************************)
(* C5.  migrateConfig(doc, v, v) returns the very object it was given,     *)
(* with every property as it was (configVersion included), and invokes no  *)
(* transform, whatever the registry holds.                                 *)
(***************************************************************************)
C5_SameVersionNoOp ==
  (IsMigrateCall /\ call.fromVersion = call.toVersion) =>
    /\ ~call.out.threw
    /\ call.out.ret = 1
    /\ call.out.heap = <<call.input>>
    /\ call.out.invoked = <<>>

\* migrateConfig(doc, 2, 2) has returned for a document without configVersion,
\* with the step from version 2 registered.
C5_Witness ==
  /\ IsMigrateCall
  /\ call.fromVersion = 2
  /\ call.toVersion = 2
  /\ call.input.configVersion = Undefined
  /\ StepRegistered(2)
  /\ ~call.out.threw

(***************************************************************************)
(* C6.  Whenever migrateConfig returns for fromVersion < toVersion, the    *)
(* returned document's configVersion is toVersion, whatever the last       *)
(* transform left there.                                                   *)
(***************************************************************************)
C6_VersionStamped ==
  (IsMigrateCall /\ call.fromVersion < call.toVersion /\ ~call.out.threw) =>
    Returned.configVersion = Num(call.toVersion)

\* A call has returned whose last transform left configVersion absent.
C6_Witness ==
  /\ IsMigrateCall
  /\ call.fromVersion < call.toVersion
  /\ ~call.out.threw
  /\ call.input.configVersion = Undefined
  /\ \A i \in DOMAIN call.out.invoked :
       migrationRegistry[call.out.invoked[i]].kind \in {"rename", "identity"}
  /\ Len(call.out.invoked) = 2

(***************************************************************************)
(* Vocabulary of the loader's properties.                                  *)
(***************************************************************************)
IsLoadCall == call.op = "validateAndMigrateConfig"

IsReadCall == call.op = "readConfigFile"

\* A loader call that had a document to work on: the caller's, or the object
\* parsed from the file.
HasDocument ==
  \/ IsLoadCall
  \/ IsReadCall /\ call.file.kind = "text" /\ call.file.json = "object"

\* That document, as it was before the call.
LoadedInput == IF IsLoadCall THEN call.input ELSE call.file.value

IsFieldError(e, field) ==
  /\ e.name = "ConfigValidationError"
  /\ e.code = "CONFIG_VALIDATION_ERROR"
  /\ e.field = field

\* The document compose-and-stamp yields from a document of version v.
MigratedToCurrent(doc, v) ==
  [ComposeSteps(doc, v, CURRENT_CONFIG_VERSION)
     EXCEPT !.configVersion = Num(CURRENT_CONFIG_VERSION)]

(***************************************************************************)
(* C7.  A document whose configVersion is greater than the current version *)
(* is rejected with a ConfigValidationError on configVersion before any    *)
(* work: no transform is invoked, validateConfig does not run, and the     *)
(* document is left as it was, whatever the registry holds.                *)
(***************************************************************************)
C7_ForwardRejected ==
  (/\ IsLoadCall
   /\ call.input.configVersion.type = "number"
   /\ call.input.configVersion.val > CURRENT_CONFIG_VERSION) =>
    /\ call.out.threw
    /\ IsFieldError(call.out.err, "configVersion")
    /\ call.out.invoked = <<>>
    /\ call.out.validated = 0
    /\ call.out.ret = 0
    /\ call.out.heap = <<call.input>>

\* A document of version 2 has been rejected while the step 2 -> 3 is
\* registered.
C7_Witness ==
  /\ IsLoadCall
  /\ call.input.configVersion = Num(2)
  /\ StepRegistered(2)
  /\ call.out.threw
  /\ call.out.err.field = "configVersion"

(***************************************************************************)
(* C8.  A document of a version v below the current one, for which every   *)
(* step from v to the current version is registered, no transform raises   *)
(* and the migrated document passes validateConfig, loads: the loader      *)
(* returns the migrated document with configVersion equal to the current   *)
(* version.  Version 0 counts as a present version.                        *)
(***************************************************************************)
C8_OldDocumentsLoad ==
  (/\ HasDocument
   /\ LoadedInput.configVersion.type = "number"
   /\ LoadedInput.configVersion.val < CURRENT_CONFIG_VERSION
   /\ StepsRegistered(LoadedInput.configVersion.val, CURRENT_CONFIG_VERSION)
   /\ NoStepThrows(LoadedInput.configVersion.val, CURRENT_CONFIG_VERSION)
   /\ ~validateConfig(MigratedToCurrent(LoadedInput,
                                        LoadedInput.configVersion.val)).threw) =>
    /\ ~call.out.threw
    /\ Returned.configVersion = Num(CURRENT_CONFIG_VERSION)
    /\ Returned = MigratedToCurrent(LoadedInput, LoadedInput.configVersion.val)

\* readConfigFile has returned a config of version 1 for a file of version 0
\* in the older schema, after one transform.
C8_Witness ==
  /\ IsReadCall
  /\ HasDocument
  /\ call.file.value.configVersion = Num(0)
  /\ call.file.value.dex = Undefined
  /\ ~call.out.threw
  /\ Len(call.out.invoked) = 1
  /\ Returned.configVersion = Num(1)

(***************************************************************************)
(* C9.  A document whose configVersion is absent (undefined) or null is    *)
(* rejected with a ConfigValidationError on configVersion before any       *)
(* transform is invoked and before validateConfig runs.                    *)
(***************************************************************************)
C9_MissingVersionRejected ==
  (HasDocument /\ LoadedInput.configVersion.type \in {"undefined", "null"}) =>
    /\ call.out.threw
    /\ IsFieldError(call.out.err, "configVersion")
    /\ call.out.invoked = <<>>
    /\ call.out.validated = 0
    /\ call.out.ret = 0

\* readConfigFile has rejected a file whose configVersion is null, with the
\* step 0 -> 1 registered.
C9_Witness ==
  /\ IsReadCall
  /\ HasDocument
  /\ call.file.value.configVersion = Null
  /\ StepRegistered(0)
  /\ call.out.threw

(***************************************************************************)
(* C10.  Validation gate: a loader call either returns a config whose      *)
(* configVersion is the current version and which passes validateConfig    *)
(* (validateConfig having run on it), or raises an error and returns no    *)
(* document.                                                               *)
(***************************************************************************)
C10_ValidationGate ==
  (IsLoadCall \/ IsReadCall) =>
    IF call.out.threw
    THEN call.out.ret = 0 /\ call.out.err # NoError
    ELSE /\ call.out.ret \in DOMAIN call.out.heap
         /\ Returned.configVersion = Num(CURRENT_CONFIG_VERSION)
         /\ ~validateConfig(Returned).threw
         /\ call.out.validated = 1

\* readConfigFile has returned a config it migrated from version 0.
C10_Witness ==
  /\ IsReadCall
  /\ ~call.out.threw
  /\ Len(call.out.invoked) = 1
  /\ call.file.value.configVersion = Num(0)

(***************************************************************************)
(* C11.  The loader propagates typed errors: when the migration engine     *)
(* fails during readConfigFile (a step is missing or a transform raises,   *)
(* for a document older than the current version), the caller receives the *)
(* engine's MigrationError; once the file has been read and parsed into a  *)
(* document, no failure reaches the caller as a FileSystemError.           *)
(***************************************************************************)
C11_MigrationErrorPropagates ==
  /\ (/\ IsReadCall
      /\ HasDocument
      /\ LoadedInput.configVersion.type = "number"
      /\ LoadedInput.configVersion.val < CURRENT_CONFIG_VERSION
      /\ ~(/\ StepsRegistered(LoadedInput.configVersion.val, CURRENT_CONFIG_VERSION)
           /\ NoStepThrows(LoadedInput.configVersion.val, CURRENT_CONFIG_VERSION))) =>
       call.out.threw /\ IsMigrationError(call.out.err)
  /\ (IsReadCall /\ HasDocument /\ call.out.threw) =>
       call.out.err.name # "FileSystemError"

(***************************************************************************)
(* Vocabulary of the writer's properties.                                  *)
(***************************************************************************)
IsWriteCall == call.op = "writeConfigFile"

\* validateConfig rejects the stamped copy of the config handed to the call.
WriteInputInvalid == validateConfig(ConfigWithVersion(call.input)).threw

(***************************************************************************)
(* C12.  writeConfigFile validates before it touches storage: it stamps    *)
(* the current version on a copy (the caller's config stays as it was),    *)
(* runs validateConfig on that copy, and if validation fails it raises a   *)
(* ConfigValidationError and leaves storage as it found it: no directory   *)
(* created, no file written or overwritten.                                *)
(***************************************************************************)
C12_ValidatesBeforeStorage ==
  IsWriteCall =>
    /\ call.out.validated = 1
    /\ call.out.heap = <<call.input, ConfigWithVersion(call.input)>>
    /\ WriteInputInvalid =>
         /\ call.out.threw
         /\ call.out.err.name = "ConfigValidationError"
         /\ files = call.before
    /\ ~call.out.threw =>
         /\ DirectoryExists(files, call.path)
         /\ files[call.path] = JsonStringify(ConfigWithVersion(call.input))

\* An invalid config was refused for a path below a directory that did not
\* exist, and the directory still does not exist.
C12_Witness ==
  /\ IsWriteCall
  /\ WriteInputInvalid
  /\ call.path = <<"out", "strategy-config.json">>
  /\ call.before[<<"out">>] = NoFile
  /\ call.out.threw
  /\ files[<<"out">>] = NoFile

\* The outcome of readConfigFile(path) called in the current state.
ReadNow(path) == readConfigFile(migrationRegistry, files, path)

(***************************************************************************)
(* C13.  Round trip: after writeConfigFile(config, path) has succeeded, a  *)
(* following readConfigFile(path) succeeds, invokes no migration transform *)
(* and yields a config equal to the original in every field except        *)
(* configVersion, which is the current version.                            *)
(***************************************************************************)
C13_RoundTrip ==
  (IsWriteCall /\ ~call.out.threw) =>
    /\ ~ReadNow(call.path).threw
    /\ ReadNow(call.path).invoked = <<>>
    /\ ReadNow(call.path).heap[ReadNow(call.path).ret] =
         [call.input EXCEPT !.configVersion = Num(CURRENT_CONFIG_VERSION)]

\* A staking-only config of version 0 has been written below a directory the
\* call created, while a transform for 0 -> 1 is registered.
C13_Witness ==
  /\ IsWriteCall
  /\ ~call.out.threw
  /\ call.input.configVersion = Num(0)
  /\ call.input.gaugeAddress = Undefined
  /\ call.before[<<"out">>] = NoFile
  /\ call.path = <<"out", "strategy-config.json">>
  /\ StepRegistered(0)

(***************************************************************************)
(* Vocabulary of the validator's properties: the rules as statements about *)
(* a configuration, apart from the code that checks them.                  *)
(***************************************************************************)
IsValidateCall == call.op = "validateConfig"

\* A string of the form 0x and 40 hexadecimal digits.
WellFormedAddress(v) == IsString(v) /\ MatchesAddressPattern(v.val)

\* Two address strings that are equal up to letter case.
SameAddress(a, b) == ToLowerCase(a.val) = ToLowerCase(b.val)

\* A gauge or staking address counts as present when it is set to a
\* non-empty value.
Present(v) == Truthy(v)

GaugeStakingRuleHolds(config) ==
  /\ Present(config.gaugeAddress) \/ Present(config.stakingAddress)
  /\ Present(config.gaugeAddress) => WellFormedAddress(config.gaugeAddress)
  /\ Present(config.stakingAddress) => WellFormedAddress(config.stakingAddress)

\* The invariant of a SwapRoute, with the expected endpoints.
RouteRuleHolds(config, r) ==
  LET route == config.routes.val[r].val
  IN /\ WellFormedAddress(route.from)
     /\ SameAddress(route.from, config.rewardToken)
     /\ WellFormedAddress(route.to)
     /\ r = "rewardToNative" => SameAddress(route.to, Str(NATIVE_TOKEN_ADDRESS))
     /\ route.path.type = "array"
     /\ Len(route.path.val) > 0
     /\ SameAddress(route.path.val[1], route.from)
     /\ SameAddress(route.path.val[Len(route.path.val)], route.to)
     /\ \A i \in DOMAIN route.path.val : WellFormedAddress(route.path.val[i])

\* The rules in the order the validator is to apply them.
RuleOrder ==
  <<"network", "strategyFamily", "dex", "name", "lpTokenAddress", "rewardToken",
    "gauge/staking", "beefyCore.keeper", "beefyCore.vaultFactory",
    "beefyCore.feeConfig", "beefyCore.feeRecipient", "routes.rewardToNative",
    "routes.rewardToLp0", "routes.rewardToLp1">>

RuleHolds(config, i) ==
  CASE i = 1 -> config.network \in {Str(<<"m", "a", "i", "n", "n", "e", "t">>),
                                    Str(<<"o", "p", "t", "i", "m", "i", "s", "m">>),
                                    Str(<<"a", "r", "b", "i", "t", "r", "u", "m">>),
                                    Str(<<"b", "a", "s", "e">>)}
    [] i = 2 -> config.strategyFamily = Str(solidly_lp)
    [] i = 3 -> config.dex \in {Str(velodrome), Str(aerodrome)}
    [] i = 4 -> isFilesystemSafeName(config.name) = "true"
    [] i = 5 -> WellFormedAddress(config.lpTokenAddress)
    [] i = 6 -> WellFormedAddress(config.rewardToken)
    [] i = 7 -> GaugeStakingRuleHolds(config)
    [] i \in 8..11 -> WellFormedAddress(config.beefyCore.val[SubSeq(
                         <<"keeper", "vaultFactory", "feeConfig", "feeRecipient">>,
                         i - 7, i - 7)[1]])
    [] i \in 12..14 -> RouteRuleHolds(config, SubSeq(
                         <<"rewardToNative", "rewardToLp0", "rewardToLp1">>,
                         i - 11, i - 11)[1])

ViolatedRules(config) == {i \in DOMAIN RuleOrder : ~RuleHolds(config, i)}

\* The error fields that belong to a rule.
FieldsOfRule(i) ==
  IF i = 7 THEN {"gaugeAddress", "stakingAddress"}
  ELSE IF i \in 12..14
  THEN {RuleOrder[i] \o ".from", RuleOrder[i] \o ".to", RuleOrder[i] \o ".path"}
  ELSE {RuleOrder[i]}

AddressesWellFormed(config) ==
  /\ WellFormedAddress(config.lpTokenAddress)
  /\ WellFormedAddress(config.rewardToken)
  /\ config.gaugeAddress # Undefined => WellFormedAddress(config.gaugeAddress)
  /\ config.stakingAddress # Undefined => WellFormedAddress(config.stakingAddress)
  /\ \A f \in BeefyCoreFields : WellFormedAddress(config.beefyCore.val[f])
  /\ \A r \in RouteNames :
       LET route == config.routes.val[r].val
       IN /\ WellFormedAddress(route.from)
          /\ WellFormedAddress(route.to)
          /\ \A i \in DOMAIN route.path.val : WellFormedAddress(route.path.val[i])

(***************************************************************************)
(* C15.  Address invariant of a validated config: in every configuration   *)
(* validateConfig accepts, every address field holds a well-formed address *)
(* (0x and 40 hexadecimal digits): lpTokenAddress, rewardToken,            *)
(* gaugeAddress and stakingAddress whenever the property is present, the   *)
(* four beefyCore addresses, and every route's from, to and path elements. *)
(***************************************************************************)
C15_AddressInvariant ==
  (IsValidateCall /\ ~call.out.threw) => AddressesWellFormed(call.input)

(***************************************************************************)
(* C16.  A solidly_lp configuration in which gaugeAddress and              *)
(* stakingAddress are both absent, and which passes the network, family,   *)
(* dex, name, lpTokenAddress and rewardToken rules, fails with a           *)
(* ConfigValidationError on gaugeAddress whose message says that either    *)
(* gaugeAddress or stakingAddress must be provided, whatever the later     *)
(* rules would say.                                                        *)
(***************************************************************************)
C16_BothAbsentRejected ==
  (/\ IsValidateCall
   /\ call.input.gaugeAddress = Undefined
   /\ call.input.stakingAddress = Undefined
   /\ \A i \in 1..6 : RuleHolds(call.input, i)) =>
    /\ call.out.threw
    /\ IsFieldError(call.out.err, "gaugeAddress")
    /\ call.out.err.message = "Either gaugeAddress or stakingAddress must be provided"

\* A configuration with neither address and an ill-formed keeper has been
\* rejected for gaugeAddress.
C16_Witness ==
  /\ IsValidateCall
  /\ call.input.gaugeAddress = Undefined
  /\ call.input.stakingAddress = Undefined
  /\ call.input.beefyCore.val.keeper = ShortAddress
  /\ call.out.threw
  /\ call.out.err.field = "gaugeAddress"

\* A gauge or staking address is present in a configuration when the
\* property is set, whatever the value.
IsSet(v) == v # Undefined

(***************************************************************************)
(* C17.  Gauge/staking acceptance: for the solidly_lp family the           *)
(* family-conditional rule passes exactly when at least one of             *)
(* gaugeAddress and stakingAddress is present and every one that is        *)
(* present is a well-formed address; so a configuration that satisfies     *)
(* every other rule is accepted exactly in that case (with only            *)
(* gaugeAddress, with only stakingAddress, and with both).                 *)
(***************************************************************************)
C17_GaugeStakingAcceptance ==
  (/\ IsValidateCall
   /\ \A i \in (1..6) \cup (8..14) : RuleHolds(call.input, i)) =>
    (~call.out.threw <=>
       /\ IsSet(call.input.gaugeAddress) \/ IsSet(call.input.stakingAddress)
       /\ IsSet(call.input.gaugeAddress) => WellFormedAddress(call.input.gaugeAddress)
       /\ IsSet(call.input.stakingAddress) =>
            WellFormedAddress(call.input.stakingAddress))

\* A route of a configuration.
RouteOf(config, r) == config.routes.val[r].val

\* The rules before the routes hold, and the route's `from` is the reward
\* token.
ReachesTargetCheck(config, r) ==
  /\ \A i \in 1..11 : RuleHolds(config, i)
  /\ WellFormedAddress(RouteOf(config, r).from)
  /\ SameAddress(RouteOf(config, r).from, config.rewardToken)

(***************************************************************************)
(* C18.  Native leg target: a configuration whose routes.rewardToNative.to *)
(* is not the native-token sentinel address (compared without regard to    *)
(* letter case) fails with field routes.rewardToNative.to, even when its   *)
(* path ends with that same address; the `to` of rewardToLp0 and           *)
(* rewardToLp1 is not held to any expected address: a configuration whose  *)
(* routes are otherwise consistent is accepted with any well-formed `to`   *)
(* there.                                                                  *)
(***************************************************************************)
C18_NativeTarget ==
  IsValidateCall =>
    LET native == RouteOf(call.input, "rewardToNative")
    IN /\ (/\ ReachesTargetCheck(call.input, "rewardToNative")
           /\ ~SameAddress(native.to, Str(NATIVE_TOKEN_ADDRESS))) =>
            /\ call.out.threw
            /\ IsFieldError(call.out.err, "routes.rewardToNative.to")
       /\ (/\ \A i \in 1..12 : RuleHolds(call.input, i)
           /\ \A r \in {"rewardToLp0", "rewardToLp1"} :
                RouteRuleHolds(call.input, r)) => ~call.out.threw

\* rewardToNative leads to another well-formed address, its path ends there,
\* and the configuration has been rejected for routes.rewardToNative.to.
C18_Witness ==
  /\ IsValidateCall
  /\ RouteOf(call.input, "rewardToNative").to = Str(Address("7"))
  /\ RouteOf(call.input, "rewardToNative").path =
       Arr(<<Str(RewardTokenAddress), Str(Address("7"))>>)
  /\ call.out.threw
  /\ call.out.err.field = "routes.rewardToNative.to"

\* The routes the validator checks before route r.
RoutesBefore(r) ==
  CASE r = "rewardToNative" -> {}
    [] r = "rewardToLp0" -> {"rewardToNative"}
    [] r = "rewardToLp1" -> {"rewardToNative", "rewardToLp0"}

\* Nothing before route r stops the validator.
ReachesRoute(config, r) ==
  /\ \A i \in 1..11 : RuleHolds(config, i)
  /\ \A q \in RoutesBefore(r) : RouteRuleHolds(config, q)

(***************************************************************************)
(* C19.  Route source equals reward token, without regard to letter case:  *)
(* for each of the three routes r, a configuration that is valid up to     *)
(* that route and whose routes.r.from is a well-formed address other than  *)
(* rewardToken fails with field routes.r.from and a message saying it must *)
(* match rewardToken, while a configuration whose `from` addresses differ  *)
(* from rewardToken in letter case only is accepted.                       *)
(***************************************************************************)
C19_RouteSource ==
  IsValidateCall =>
    /\ \A r \in RouteNames :
         (/\ ReachesRoute(call.input, r)
          /\ WellFormedAddress(RouteOf(call.input, r).from)
          /\ ~SameAddress(RouteOf(call.input, r).from, call.input.rewardToken)) =>
           /\ call.out.threw
           /\ IsFieldError(call.out.err, "routes." \o r \o ".from")
           /\ call.out.err.message = "from must match rewardToken"
    /\ (/\ \A i \in DOMAIN RuleOrder : RuleHolds(call.input, i)
        /\ \A r \in RouteNames :
             RouteOf(call.input, r).from # call.input.rewardToken) => ~call.out.threw

\* rewardToLp1 starts from another well-formed address than the reward token
\* and the configuration has been rejected for routes.rewardToLp1.from.
C19_Witness ==
  /\ IsValidateCall
  /\ RouteOf(call.input, "rewardToLp1").from = Str(Address("8"))
  /\ call.input.rewardToken = Str(RewardTokenAddress)
  /\ call.out.threw
  /\ call.out.err.field = "routes.rewardToLp1.from"

(***************************************************************************)
(* C20.  Path start: a valid configuration, whose routes have the form     *)
(* {from: A, to: B, path: [A, B]} with A the reward token, is accepted;    *)
(* with path[0] of a route changed to an address other than its `from`    *)
(* (without regard to letter case) it fails with field routes.r.path and a *)
(* message saying the path must start with the from address; for           *)
(* rewardToNative, rewardToLp0 and rewardToLp1 alike.                      *)
(***************************************************************************)
C20_PathStart ==
  IsValidateCall =>
    /\ call.input = ValidConfig => ~call.out.threw
    /\ call.input = MixedCaseConfig => ~call.out.threw
    /\ \A r \in RouteNames :
         LET route == RouteOf(call.input, r)
         IN (/\ ReachesTargetCheck(call.input, r)
             /\ \A q \in RoutesBefore(r) : RouteRuleHolds(call.input, q)
             /\ WellFormedAddress(route.to)
             /\ r = "rewardToNative" => SameAddress(route.to, Str(NATIVE_TOKEN_ADDRESS))
             /\ route.path.type = "array"
             /\ Len(route.path.val) > 0
             /\ WellFormedAddress(route.path.val[1])
             /\ ~SameAddress(route.path.val[1], route.from)) =>
              /\ call.out.threw
              /\ IsFieldError(call.out.err, "routes." \o r \o ".path")
              /\ call.out.err.message = "path must start with from address"

\* The path of rewardToLp0 starts at another address than its `from`, all
\* else being valid, and the configuration has been rejected for
\* routes.rewardToLp0.path.
C20_Witness ==
  /\ IsValidateCall
  /\ call.input =
       ApplyEdit(ValidConfig,
                 Edit(<<"routes", "rewardToLp0", "path">>,
                      Arr(<<Str(Address("8")), Str(Address("1"))>>)))
  /\ call.out.threw
  /\ call.out.err.field = "routes.rewardToLp0.path"

\* The invariant of a SwapRoute's path: non-empty, from `from` to `to`,
\* through well-formed addresses.
PathInvariant(route) ==
  /\ route.path.type = "array"
  /\ Len(route.path.val) > 0
  /\ SameAddress(route.path.val[1], route.from)
  /\ SameAddress(route.path.val[Len(route.path.val)], route.to)
  /\ \A i \in DOMAIN route.path.val : WellFormedAddress(route.path.val[i])

\* Nothing before the path checks of route r stops the validator.
ReachesPathCheck(config, r) ==
  /\ ReachesRoute(config, r)
  /\ WellFormedAddress(RouteOf(config, r).from)
  /\ SameAddress(RouteOf(config, r).from, config.rewardToken)
  /\ WellFormedAddress(RouteOf(config, r).to)
  /\ r = "rewardToNative" =>
       SameAddress(RouteOf(config, r).to, Str(NATIVE_TOKEN_ADDRESS))

(***************************************************************************)
(* C21.  SwapRoute invariant of a validated config: in every configuration *)
(* validateConfig accepts, each of the three routes has a non-empty path   *)
(* whose first element is `from` and whose last element is `to` (without   *)
(* regard to letter case) and whose elements are all well-formed; and a    *)
(* route whose path is empty, does not end with `to`, or holds an          *)
(* ill-formed element makes validation fail with field routes.<route>.path *)
(* when nothing before the path checks fails.                              *)
(***************************************************************************)
C21_SwapRouteInvariant ==
  IsValidateCall =>
    /\ ~call.out.threw => \A r \in RouteNames : PathInvariant(RouteOf(call.input, r))
    /\ \A r \in RouteNames :
         (ReachesPathCheck(call.input, r) /\ ~PathInvariant(RouteOf(call.input, r))) =>
           /\ call.out.threw
           /\ IsFieldError(call.out.err, "routes." \o r \o ".path")

\* The path of rewardToLp1 starts at `from` and ends elsewhere than `to`;
\* the configuration has been rejected for routes.rewardToLp1.path.
C21_Witness ==
  /\ IsValidateCall
  /\ ReachesPathCheck(call.input, "rewardToLp1")
  /\ RouteOf(call.input, "rewardToLp1").path =
       Arr(<<Str(RewardTokenAddress), Str(Address("7"))>>)
  /\ RouteOf(call.input, "rewardToLp1").to = Str(Address("2"))
  /\ call.out.threw
  /\ call.out.err.message = "path must end with to address"

IsAddressCall == call.op = "isValidAddress"

IsNameCall == call.op = "isFilesystemSafeName"

HexadecimalCharacters ==
  {"0", "1", "2", "3", "4", "5", "6", "7", "8", "9",
   "a", "b", "c", "d", "e", "f", "A", "B", "C", "D", "E", "F"}

\* '0x' followed by exactly 40 hexadecimal characters.
IsPrefixAndFortyHex(s) ==
  /\ Len(s) = 2 + 40
  /\ SubSeq(s, 1, 2) = <<"0", "x">>
  /\ \A i \in 3..Len(s) : s[i] \in HexadecimalCharacters

(***************************************************************************)
(* C22.  isValidAddress is true exactly for the strings made of '0x' and   *)
(* exactly 40 hexadecimal characters of either case, and false for every   *)
(* other string (too short, too long, with a character that is no          *)
(* hexadecimal digit, without the prefix) and for a missing value.         *)
(***************************************************************************)
C22_AddressFormat ==
  IsAddressCall =>
    /\ call.input.type = "string" => (call.out <=> IsPrefixAndFortyHex(call.input.val))
    /\ IsNullish(call.input) => ~call.out

\* A string of 43 characters whose first 42 are a well-formed address has
\* been refused.
C22_Witness ==
  /\ IsAddressCall
  /\ call.input = Str(Append(Address("a"), "0"))
  /\ ~call.out

IsLetterDigitUnderscoreHyphenOrSpace(c) ==
  c \in {"a", "b", "c", "d", "e", "f", "g", "h", "i", "j", "k", "l", "m",
         "n", "o", "p", "q", "r", "s", "t", "u", "v", "w", "x", "y", "z",
         "A", "B", "C", "D", "E", "F", "G", "H", "I", "J", "K", "L", "M",
         "N", "O", "P", "Q", "R", "S", "T", "U", "V", "W", "X", "Y", "Z",
         "0", "1", "2", "3", "4", "5", "6", "7", "8", "9", "_", "-", " "}

Contains(s, sub) == \E i \in 1..Len(s) : \E j \in i..Len(s) : SubSeq(s, i, j) = sub

\* The names the name checker is to refuse.
NameRefused(s) ==
  \/ Contains(s, <<".", ".">>)
  \/ Contains(s, <<"/">>)
  \/ Contains(s, <<"\\">>)
  \/ s = <<>>
  \/ \A i \in DOMAIN s : s[i] \in {" ", "\t", "\n", "\r"}
  \/ \E i \in DOMAIN s : ~IsLetterDigitUnderscoreHyphenOrSpace(s[i])

\* A name of permitted characters with a space inside it.
HasInnerSpace(s) ==
  /\ \A i \in DOMAIN s : IsLetterDigitUnderscoreHyphenOrSpace(s[i])
  /\ Len(s) >= 3
  /\ s[1] # " "
  /\ s[Len(s)] # " "
  /\ \E i \in 2..(Len(s) - 1) : s[i] = " "

\* Network, strategy family and DEX pass, so the validator comes to the name.
ReachesNameCheck(config) ==
  /\ isSupportedNetwork(config.network)
  /\ isSupportedStrategyFamily(config.strategyFamily)
  /\ ArrayIncludes(SUPPORTED_DEXES, config.dex)

(***************************************************************************)
(* C23.  isFilesystemSafeName is false for every name that contains '..',  *)
(* '/' or '\', is empty, is empty after trimming, or has a character other *)
(* than a letter, digit, underscore, hyphen or space; it is true for       *)
(* 'Test-Strategy_123' and for names with inner spaces such as             *)
(* 'Test Strategy'; and validateConfig rejects every name for which it is  *)
(* false with field name.                                                  *)
(***************************************************************************)
C23_NameSafety ==
  /\ (IsNameCall /\ call.input.type = "string") =>
       /\ NameRefused(call.input.val) => call.out = "false"
       /\ call.input.val = <<"T", "e", "s", "t", "-", "S", "t", "r", "a", "t", "e", "g", "y",
                             "_", "1", "2", "3">> => call.out = "true"
       /\ HasInnerSpace(call.input.val) => call.out = "true"
  /\ (IsValidateCall /\ ReachesNameCheck(call.input)
        /\ isFilesystemSafeName(call.input.name) = "false") =>
       /\ call.out.threw
       /\ IsFieldError(call.out.err, "name")

\* The validator has rejected a name of spaces only, which the checker
\* refuses, with field name.
C23_Witness ==
  /\ IsValidateCall
  /\ call.input.name = Str(<<" ", " ", " ">>)
  /\ isFilesystemSafeName(call.input.name) = "false"
  /\ call.out.threw
  /\ IsFieldError(call.out.err, "name")

\* The properties of an error other than its message text and the
\* discriminators of its kind.
DataFields(e) == DOMAIN e \ {"message", "name", "code", "step"}

\* The error has properties that hold the version pair (from, to).
CarriesVersionPair(e, from, to) ==
  \E f \in DataFields(e) : \E t \in DataFields(e) : e[f] = from /\ e[t] = to

(***************************************************************************)
(* C24.  Errors identify their cause without their message text: every     *)
(* ConfigValidationError has code CONFIG_VALIDATION_ERROR and a field      *)
(* path, and every failure of a migration carries its kind and, as data    *)
(* beside the message, the pair of versions of the failing step.           *)
(***************************************************************************)
C24_ErrorsIdentifyCause ==
  ((IsMigrateCall \/ IsLoadCall) /\ call.out.threw) =>
    /\ call.out.err.name = "ConfigValidationError" =>
         /\ call.out.err.code = "CONFIG_VALIDATION_ERROR"
         /\ call.out.err.field # ""
    /\ IsMigrationError(call.out.err) =>
         /\ call.out.err.code = "GENERATION_ERROR"
         /\ CarriesVersionPair(call.out.err, call.out.err.message.from,
                               call.out.err.message.to)

(***************************************************************************)
(* C25.  validateConfig is total over incomplete documents: with routes,   *)
(* one route, a route's from or to, or beefyCore missing or of another     *)
(* type it returns or throws a ConfigValidationError with a field path,    *)
(* never an error of another kind; and the loader reports such a document  *)
(* as a ConfigValidationError, not as a FileSystemError.                   *)
(***************************************************************************)
C25_TotalOverIncomplete ==
  /\ (IsValidateCall /\ call.out.threw) =>
       /\ call.out.err.name = "ConfigValidationError"
       /\ call.out.err.field # ""
  /\ (IsReadCall /\ HasDocument /\ call.out.threw) =>
       call.out.err.name = "ConfigValidationError"

\* The checks of one route, in the order the validator is to apply them.
RouteCheckOrder ==
  <<"from format", "from equals rewardToken", "to format", "to equals sentinel",
    "path non-empty", "path starts with from", "path ends with to",
    "path elements well-formed">>

RouteCheckPasses(config, r, i) ==
  LET route == RouteOf(config, r)
  IN CASE i = 1 -> WellFormedAddress(route.from)
       [] i = 2 -> SameAddress(route.from, config.rewardToken)
       [] i = 3 -> WellFormedAddress(route.to)
       [] i = 4 -> r = "rewardToNative" => SameAddress(route.to, Str(NATIVE_TOKEN_ADDRESS))
       [] i = 5 -> route.path.type = "array" /\ Len(route.path.val) > 0
       [] i = 6 -> SameAddress(route.path.val[1], route.from)
       [] i = 7 -> SameAddress(route.path.val[Len(route.path.val)], route.to)
       [] i = 8 -> \A k \in DOMAIN route.path.val : WellFormedAddress(route.path.val[k])

\* What the error of a failed check says, and the property it names.
RouteCheckMessage ==
  <<"Invalid from address format", "from must match rewardToken",
    "Invalid to address format", "to must be the native token address",
    "path must be a non-empty array", "path must start with from address",
    "path must end with to address", "Invalid token address in path">>

RouteCheckProperty == <<"from", "from", "to", "to", "path", "path", "path", "path">>

\* Check i is the first check of route r that fails.
FailsFirst(config, r, i) ==
  /\ \A j \in 1..(i - 1) : RouteCheckPasses(config, r, j)
  /\ ~RouteCheckPasses(config, r, i)

(***************************************************************************)
(* C26.  Order inside route validation: the routes are checked in the      *)
(* order rewardToNative, rewardToLp0, rewardToLp1, and within a route the  *)
(* checks run in the order from format, from equals rewardToken, to        *)
(* format, (rewardToNative only) to equals the sentinel, path non-empty,   *)
(* path starts with from, path ends with to, every path element            *)
(* well-formed; the error thrown is that of the first failing check of the *)
(* first failing route.  So a path with matching endpoints and an          *)
(* ill-formed middle element is reported as 'Invalid token address' on     *)
(* routes.<route>.path, and an ill-formed first element as 'must start     *)
(* with from address'.                                                     *)
(***************************************************************************)
C26_RouteCheckOrder ==
  IsValidateCall =>
    \A r \in RouteNames :
      ReachesRoute(call.input, r) =>
        \A i \in DOMAIN RouteCheckOrder :
          FailsFirst(call.input, r, i) =>
            /\ call.out.threw
            /\ call.out.err.name = "ConfigValidationError"
            /\ call.out.err.message = RouteCheckMessage[i]
            /\ call.out.err.field = "routes." \o r \o "." \o RouteCheckProperty[i]

\* The path of rewardToLp0 begins with an ill-formed address and the `to` of
\* rewardToLp1 is ill-formed too: the validator has reported that the path of
\* rewardToLp0 must start with the from address.
C26_Witness ==
  /\ IsValidateCall
  /\ ReachesRoute(call.input, "rewardToLp0")
  /\ RouteOf(call.input, "rewardToLp0").path = Arr(<<ShortAddress, Str(Address("1"))>>)
  /\ RouteOf(call.input, "rewardToLp1").to = ShortAddress
  /\ call.out.threw
  /\ call.out.err.message = "path must start with from address"
  /\ call.out.err.field = "routes.rewardToLp0.path"

(***************************************************************************)
(* C27.  Frame of a failed load: whenever validateAndMigrateConfig throws  *)
(* (version too new, a migration failure, or a validation failure after    *)
(* the migration), the caller's document object has exactly the property   *)
(* values it had before the call, its configVersion among them.  No        *)
(* registered transform modifies its argument; one returns it.             *)
(***************************************************************************)
C27_FailedLoadLeavesDocument ==
  (IsLoadCall /\ call.out.threw) => call.out.heap[1] = call.input

(***************************************************************************)
(* C28.  The loader never accepts a document whose configVersion is not an *)
(* integer: a version that is neither below, above nor equal to the        *)
(* current one (a string that is no number, an object, NaN) makes          *)
(* validateAndMigrateConfig fail; it is not taken for the current version, *)
(* stamped and validated.                                                  *)
(***************************************************************************)
C28_OnlyIntegerVersions ==
  (IsLoadCall /\ call.input.configVersion.type # "number") => call.out.threw

(***************************************************************************)
(* C29.  migrateConfig terminates and never retries: for fromVersion <     *)
(* toVersion it invokes at most toVersion - fromVersion transforms, the    *)
(* step (k, k+1) at most once and in strictly increasing k, and then       *)
(* returns or fails; on success it has invoked exactly toVersion -         *)
(* fromVersion transforms; after a step that failed, no transform is       *)
(* invoked again: the failed step is the last one invoked.                 *)
(***************************************************************************)
C29_NoRetry ==
  (IsMigrateCall /\ call.fromVersion < call.toVersion) =>
    LET invoked == call.out.invoked
        steps == call.toVersion - call.fromVersion
    IN /\ Len(invoked) <= steps
       /\ invoked = SubSeq(StepKeys(call.fromVersion, call.toVersion), 1, Len(invoked))
       /\ ~call.out.threw => Len(invoked) = steps
       /\ call.out.threw =>
            \/ /\ call.out.err.message.text = "Migration failed"
               /\ Len(invoked) >= 1
               /\ invoked[Len(invoked)] =
                    MigrationKey(call.out.err.message.from, call.out.err.message.to)
               /\ TransformThrows(migrationRegistry[invoked[Len(invoked)]])
            \/ /\ call.out.err.message.text = "Migration is not implemented"
               /\ Len(invoked) < steps
               /\ MigrationKey(call.out.err.message.from, call.out.err.message.to) =
                    StepKey(call.fromVersion + Len(invoked))

\* A migration over two or more steps whose second step raised: the first
\* and the second transform were invoked, once each, and nothing after them.
C29_Witness ==
  /\ IsMigrateCall
  /\ call.toVersion - call.fromVersion >= 2
  /\ call.out.threw
  /\ call.out.err.message.text = "Migration failed"
  /\ call.out.invoked = <<StepKey(call.fromVersion), StepKey(call.fromVersion + 1)>>

IsRegisterCall == call.op = "registerMigration"

\* The key a registerMigration call was made for.
RegisteredKey == MigrationKey(Num(call.fromVersion), Num(call.toVersion))

(***************************************************************************)
(* C30.  Only single steps are looked up: registerMigration accepts any    *)
(* pair (a, b) and files the transform under it, the later transform       *)
(* replacing an earlier one of the same pair and every other pair keeping  *)
(* its transform; migrateConfig invokes only transforms of pairs           *)
(* (k, k+1), so a transform registered with b # a+1 is never invoked, and  *)
(* where (from, to) is registered but (from, from+1) is not,               *)
(* migrateConfig(doc, from, to) fails with the missing-step error for      *)
(* (from, from+1).                                                         *)
(***************************************************************************)
C30_SingleStepLookup ==
  /\ IsRegisterCall =>
       /\ DOMAIN migrationRegistry = DOMAIN call.before \cup {RegisteredKey}
       /\ migrationRegistry[RegisteredKey] = call.migrationFn
       /\ \A k \in DOMAIN call.before \ {RegisteredKey} :
            migrationRegistry[k] = call.before[k]
  /\ IsMigrateCall =>
       /\ \A i \in DOMAIN call.out.invoked :
            \E k \in Versions : call.out.invoked[i] = StepKey(k)
       /\ (/\ call.toVersion - call.fromVersion >= 2
           /\ MigrationKey(Num(call.fromVersion), Num(call.toVersion))
                \in DOMAIN migrationRegistry
           /\ ~StepRegistered(call.fromVersion)) =>
            /\ call.out.threw
            /\ NamesStep(call.out.err, "Migration is not implemented",
                         call.fromVersion, call.fromVersion + 1)
            /\ call.out.invoked = <<>>

\* Only the pair (1, 3) is registered, with a transform that does not raise,
\* and migrateConfig(doc, 1, 3) has failed for the missing step (1, 2).
C30_Witness ==
  /\ IsMigrateCall
  /\ call.fromVersion = 1
  /\ call.toVersion = 3
  /\ DOMAIN migrationRegistry = {MigrationKey(Num(1), Num(3))}
  /\ ~TransformThrows(migrationRegistry[MigrationKey(Num(1), Num(3))])
  /\ call.out.threw
  /\ NamesStep(call.out.err, "Migration is not implemented", 1, 2)

====
